---- MODULE Spec2Model ----
(***************************************************************************)
(* A model of the uWSGI WebDAV plugin (plugins/webdav/webdav.c).           *)
(*                                                                         *)
(* Strings are sequences of one-character strings, so that the byte-level  *)
(* work of the plugin (last-slash search, literal appends, skipping a      *)
(* prefix of the Destination header) is modelled as the code does it.      *)
(* The filesystem is a function from canonical absolute paths (sequences   *)
(* of names, the root being <<>>) to nodes; realpath() and the system      *)
(* calls resolve path strings against it as the kernel does.               *)
(***************************************************************************)
EXTENDS Integers, Sequences, FiniteSets, TLC

VARIABLES
    fs,         \* the filesystem: canonical path -> node
    fs0,        \* the filesystem as it was when the last request arrived
    resp,       \* the last request handled and the response prepared for it
    phase,      \* "fresh": one request to come; "session": a PUT and then a
                \* read to come; "put": the PUT was handled; "done"
    item,       \* resolver harness: the request path handed to the resolvers
    r_strict,   \* resolver harness: result of uwsgi_webdav_expand_path
    r_fake,     \* resolver harness: result of uwsgi_webdav_expand_fake_path
    lock_cache, \* the shared lock cache: URI -> token (NoToken when absent)
    wk,         \* lock harness: per worker, the request in progress
    xattr,      \* the extended attributes: canonical path -> (name -> value)
    conf        \* mounted: udav.mountpoints is set; linux: built with __linux__

vars == <<fs, fs0, resp, phase, item, r_strict, r_fake, lock_cache, wk, xattr, conf>>

-----------------------------------------------------------------------------
(* Bounds *)

MaxPathLen == 4     \* longest request path handed to the resolvers alone
MaxComps == 2       \* most components in a request path of a request
MaxBodyLen == 2     \* longest request body
MaxSymlinks == 2    \* symbolic links followed in one resolution
MaxFaultAt == 4     \* latest call of a DELETE that an injected fault can hit
MaxShortReads == 2  \* reads of a request body that return a single byte

-----------------------------------------------------------------------------
(* Strings *)

Chars == {"/", ".", "a", "b"}

RECURSIVE StringsUpTo(_)
StringsUpTo(n) ==
    IF n = 0 THEN {<<>>}
    ELSE LET shorter == StringsUpTo(n - 1)
         IN  shorter \cup {Append(s, c) : s \in {t \in shorter : Len(t) = n - 1}, c \in Chars}

Slash == <<"/">>
Dot == <<".">>
DotDot == <<".", ".">>

\* the components of a path string, split at every '/', empty ones kept
RECURSIVE Split(_)
Split(s) ==
    IF s = <<>> THEN << <<>> >>
    ELSE LET r == Split(Tail(s))
         IN  IF Head(s) = "/" THEN << <<>> >> \o r
             ELSE << <<Head(s)>> \o Head(r) >> \o Tail(r)

Front(s) == SubSeq(s, 1, Len(s) - 1)
Last(s) == s[Len(s)]

IsPrefix(p, q) == Len(p) <= Len(q) /\ SubSeq(q, 1, Len(p)) = p

-----------------------------------------------------------------------------
(* The filesystem *)

Dir == [kind |-> "dir", data |-> <<>>]
File(d) == [kind |-> "file", data |-> d]
Link(t) == [kind |-> "link", data |-> t]

Exists(f, p) == p \in DOMAIN f
IsDir(f, p) == Exists(f, p) /\ f[p].kind = "dir"
Children(f, p) == {q \in DOMAIN f : Len(q) = Len(p) + 1 /\ IsPrefix(p, q)}
Subtree(f, p) == {q \in DOMAIN f : IsPrefix(p, q)}

\* the docroot of the mountpoint, canonical (uwsgi_webdav_mount stores realpath(docroot))
Docroot == << <<"s">> >>
DocrootStr == <<"/", "s">>

\* the canonical string of a canonical path, as realpath() writes it
RECURSIVE PathStr(_)
PathStr(p) ==
    IF p = <<>> THEN Slash
    ELSE IF Len(p) = 1 THEN Slash \o p[1]
    ELSE PathStr(Front(p)) \o Slash \o Last(p)

NoPath == [ok |-> FALSE, path |-> <<>>]
OkPath(p) == [ok |-> TRUE, path |-> p]

\* path resolution from directory cur over the components comps, following
\* every symbolic link; every component must exist (ENOENT), a non-directory
\* followed by anything, even a single '/', fails (ENOTDIR), and more than
\* MaxSymlinks links fail (ELOOP)
RECURSIVE Walk(_, _, _, _)
Walk(f, cur, comps, fuel) ==
    IF comps = <<>> THEN OkPath(cur)
    ELSE LET c == Head(comps)
             rest == Tail(comps)
         IN  IF c = <<>> \/ c = Dot THEN Walk(f, cur, rest, fuel)
             ELSE IF c = DotDot
                  THEN Walk(f, IF cur = <<>> THEN cur ELSE Front(cur), rest, fuel)
             ELSE LET p == Append(cur, c)
                  IN  IF ~Exists(f, p) THEN NoPath
                      ELSE IF f[p].kind = "dir" THEN Walk(f, p, rest, fuel)
                      ELSE IF f[p].kind = "file"
                           THEN IF rest = <<>> THEN OkPath(p) ELSE NoPath
                      ELSE IF fuel = 0 THEN NoPath
                      ELSE LET t == f[p].data
                           IN  Walk(f, IF Head(t) = "/" THEN <<>> ELSE cur,
                                    Split(t) \o rest, fuel - 1)

\* realpath(3) of an absolute path string
Realpath(f, s) == IF s = <<>> THEN NoPath ELSE Walk(f, <<>>, Split(s), MaxSymlinks)

-----------------------------------------------------------------------------
(* The path resolvers *)

PATH_MAX == 4096

\* uwsgi_get_last_charn(item, item_len, '/'): index of the last '/', 0 if none
LastSlash(s) ==
    LET idx == {i \in 1..Len(s) : s[i] = "/"}
    IN  IF idx = {} THEN 0 ELSE CHOOSE i \in idx : \A j \in idx : j <= i

\* uwsgi_webdav_expand_path: realpath(docroot + "/" + item); the string
\* written to filename, the empty string standing for the return value 0
uwsgi_webdav_expand_path(f, it) ==
    LET r == Realpath(f, DocrootStr \o Slash \o it)
    IN  IF r.ok THEN PathStr(r.path) ELSE <<>>

\* a parent resolver that appends the last component without its '/'
expand_fake_path_without_slash(f, it) ==
    LET ls == LastSlash(it)
    IN  IF ls = 0 THEN <<>>
        ELSE LET pre == uwsgi_webdav_expand_path(f, SubSeq(it, 1, ls - 1))
                 tail == SubSeq(it, ls + 1, Len(it))
             IN  IF pre = <<>> THEN <<>>
                 ELSE IF Len(pre) + Len(tail) >= PATH_MAX THEN <<>>
                 ELSE pre \o tail

\* uwsgi_webdav_expand_fake_path: the prefix before the last '/' resolved
\* strictly, the rest (from that '/') appended literally
uwsgi_webdav_expand_fake_path(f, it) ==
    LET ls == LastSlash(it)
    IN  IF ls = 0 THEN <<>>
        ELSE LET pre == uwsgi_webdav_expand_path(f, SubSeq(it, 1, ls - 1))
                 tail == SubSeq(it, ls, Len(it))
             IN  IF pre = <<>> THEN <<>>
                 ELSE IF Len(pre) + Len(tail) >= PATH_MAX THEN <<>>
                 ELSE pre \o tail

-----------------------------------------------------------------------------
(* System calls, on path strings *)

RECURSIVE StripTrail(_)
StripTrail(cs) ==
    IF cs # <<>> /\ Last(cs) = <<>> THEN StripTrail(Front(cs)) ELSE cs

\* the kernel's lookup of the parent directory of the last component of s:
\* dir is the canonical parent, name the last component (<<>> when s names
\* the root), slash tells whether s ends in '/'
LookupParent(f, s) ==
    LET cs == Split(s)
        st == StripTrail(cs)
        slash == Len(st) < Len(cs)
    IN  IF s = <<>> THEN [ok |-> FALSE, dir |-> <<>>, name |-> <<>>, slash |-> FALSE]
        ELSE IF st = <<>> THEN [ok |-> TRUE, dir |-> <<>>, name |-> <<>>, slash |-> slash]
        ELSE LET w == Walk(f, <<>>, Front(st), MaxSymlinks)
             IN  [ok |-> w.ok /\ IsDir(f, w.path), dir |-> w.path,
                  name |-> Last(st), slash |-> slash]

SpecialName(n) == n = <<>> \/ n = Dot \/ n = DotDot

Remove(f, gone) == [q \in DOMAIN f \ gone |-> f[q]]

SysFail(f) == [ok |-> FALSE, fs |-> f, path |-> <<>>]
SysOk(f, p) == [ok |-> TRUE, fs |-> f, path |-> p]

\* open(s, O_WRONLY | O_CREAT, 0644): no O_TRUNC, no O_EXCL; a final symbolic
\* link is followed and a dangling one has its target created
RECURSIVE sys_open_creat(_, _, _)
sys_open_creat(f, s, fuel) ==
    LET pr == LookupParent(f, s)
        p == Append(pr.dir, pr.name)
    IN  IF ~pr.ok \/ SpecialName(pr.name) THEN SysFail(f)
        ELSE IF ~Exists(f, p)
             THEN IF pr.slash THEN SysFail(f) ELSE SysOk((p :> File(<<>>)) @@ f, p)
        ELSE IF f[p].kind = "dir" THEN SysFail(f)
        ELSE IF f[p].kind = "file"
             THEN IF pr.slash THEN SysFail(f) ELSE SysOk(f, p)
        ELSE IF fuel = 0 THEN SysFail(f)
        ELSE LET t == f[p].data
                 full == (IF Head(t) = "/" THEN t ELSE PathStr(pr.dir) \o Slash \o t)
                         \o (IF pr.slash THEN Slash ELSE <<>>)
             IN  sys_open_creat(f, full, fuel - 1)

\* open(s, O_RDONLY) of something that is not a directory
sys_open_rdonly(f, s) ==
    LET r == Realpath(f, s)
    IN  IF r.ok /\ f[r.path].kind = "file" THEN SysOk(f, r.path) ELSE SysFail(f)

\* write(fd, body, n) from offset 0 of a file opened without O_TRUNC: the
\* bytes beyond the written ones stay
Overwrite(old, body) ==
    IF Len(old) > Len(body) THEN body \o SubSeq(old, Len(body) + 1, Len(old)) ELSE body

sys_write(f, p, body) == [f EXCEPT ![p] = File(Overwrite(f[p].data, body))]

\* mkdir(s, 0755)
sys_mkdir(f, s) ==
    LET pr == LookupParent(f, s)
        p == Append(pr.dir, pr.name)
    IN  IF ~pr.ok \/ SpecialName(pr.name) \/ Exists(f, p) THEN SysFail(f)
        ELSE SysOk((p :> Dir) @@ f, p)

\* unlink(s): the entry itself, never the target of a link
sys_unlink(f, s) ==
    LET pr == LookupParent(f, s)
        p == Append(pr.dir, pr.name)
    IN  IF ~pr.ok \/ SpecialName(pr.name) \/ ~Exists(f, p) \/ IsDir(f, p) \/ pr.slash
        THEN SysFail(f)
        ELSE SysOk(Remove(f, {p}), p)

\* rmdir(s): an empty directory; notempty tells errno = ENOTEMPTY
sys_rmdir(f, s) ==
    LET pr == LookupParent(f, s)
        p == Append(pr.dir, pr.name)
    IN  IF ~pr.ok \/ pr.name = <<>> \/ pr.name = Dot \/ ~IsDir(f, p)
        THEN [ok |-> FALSE, fs |-> f, notempty |-> FALSE]
        ELSE IF pr.name = DotDot \/ Children(f, p) # {}
        THEN [ok |-> FALSE, fs |-> f, notempty |-> TRUE]
        ELSE [ok |-> TRUE, fs |-> Remove(f, {p}), notempty |-> FALSE]

\* rename(old, new): the entries themselves (a final link is not followed);
\* a directory only onto an empty directory and never into itself, a
\* non-directory never onto a directory; renaming a path onto itself succeeds
\* and changes nothing
sys_rename(f, old, new) ==
    LET po == LookupParent(f, old)
        pn == LookupParent(f, new)
        src == Append(po.dir, po.name)
        dst == Append(pn.dir, pn.name)
    IN  IF ~po.ok \/ ~pn.ok \/ SpecialName(po.name) \/ SpecialName(pn.name) THEN SysFail(f)
        ELSE IF ~Exists(f, src) THEN SysFail(f)
        ELSE IF ~IsDir(f, src) /\ (po.slash \/ pn.slash) THEN SysFail(f)
        ELSE IF src = dst THEN SysOk(f, dst)
        ELSE IF IsDir(f, src) /\ IsPrefix(src, dst) THEN SysFail(f)
        ELSE IF IsDir(f, src) /\ Exists(f, dst) /\ (~IsDir(f, dst) \/ Children(f, dst) # {})
             THEN SysFail(f)
        ELSE IF ~IsDir(f, src) /\ IsDir(f, dst) THEN SysFail(f)
        ELSE LET moved == Subtree(f, src)
                 kept == Remove(f, moved \cup {dst})
                 new_at(q) == dst \o SubSeq(q, Len(src) + 1, Len(q))
                 placed == [r \in {new_at(q) : q \in moved} |->
                               f[src \o SubSeq(r, Len(dst) + 1, Len(r))]]
             IN  SysOk(placed @@ kept, dst)

\* uwsgi_is_dir: stat() and S_ISDIR
uwsgi_is_dir(f, s) ==
    LET r == Realpath(f, s) IN r.ok /\ IsDir(f, r.path)

-----------------------------------------------------------------------------
(* The filesystems a request can find *)

\* outside the docroot: the directory /e with the file /e/a, and the file /b
Outside ==
    (<<>> :> Dir) @@ (<< <<"s">> >> :> Dir) @@ (<< <<"e">> >> :> Dir)
    @@ (<< <<"e">>, <<"a">> >> :> File(<<"x">>)) @@ (<< <<"b">> >> :> File(<<"y">>))

InDocroot(rel) == Docroot \o rel

\* what /s/a can be: nothing, a file, a directory (empty, or holding b)
SlotA ==
    { <<>> }
    \cup { InDocroot(<< <<"a">> >>) :> File(<<"x", "y">>) }
    \cup { InDocroot(<< <<"a">> >>) :> Dir }
    \cup { (InDocroot(<< <<"a">> >>) :> Dir) @@ (InDocroot(<< <<"a">>, <<"b">> >>) :> n) :
             n \in {File(<<"x">>), Dir} }

\* what /s/b can be: nothing, a file, a directory, a link to a directory
\* outside the docroot, a dangling link to a path outside the docroot
SlotB ==
    { <<>> }
    \cup { InDocroot(<< <<"b">> >>) :> n :
             n \in {File(<<"y">>), Dir, Link(<<"/", "e">>), Link(<<"/", "n">>)} }

InitFS == { a @@ b @@ Outside : a \in SlotA, b \in SlotB }

-----------------------------------------------------------------------------
(* XML trees *)

\* an element: namespace (<<>> when it has none), name, text content and
\* child elements. A name or a text is a sequence of characters; the names
\* and texts the code writes as literals are sequences of one literal
Node(ns, name, text, kids) == [ns |-> ns, name |-> name, text |-> text, kids |-> kids]
NoDoc == Node(<<>>, <<>>, <<>>, <<>>)
DAV == <<"DAV:">>

\* a request body: none (CONTENT_LENGTH 0), one xmlReadMemory cannot parse
\* ("junk"), or a document with its root element
NoBody == [kind |-> "none", root |-> NoDoc]
JunkBody == [kind |-> "junk", root |-> NoDoc]
XmlBody(root) == [kind |-> "xml", root |-> root]

-----------------------------------------------------------------------------
(* Values of the variables a harness does not use *)

NoResp ==
    [method |-> "NONE", path |-> <<>>, body |-> <<>>, dest |-> <<>>, ow |-> "absent",
     scheme |-> <<>>, fault |-> "none", status |-> 0, out |-> <<>>, clen |-> -1,
     list |-> {}, filename |-> <<>>, d_filename |-> <<>>, exists |-> FALSE, ub |-> FALSE,
     calls |-> 0, k |-> 0, proto |-> "", depth |-> "absent", xml |-> NoBody, doc |-> NoDoc,
     headers |-> {}, opened |-> 0, closed |-> 0]

NotRun == [done |-> FALSE, name |-> <<>>]
Ran(n) == [done |-> TRUE, name |-> n]

\* no file has extended attributes; a configured Linux build whose mime table
\* knows the type of the files served
NoXattr == <<>>
Configured == [mounted |-> TRUE, linux |-> TRUE, mime |-> TRUE]

URIs == {"u1", "u2"}
NoToken == "none"
Workers == {1, 2}
Idle == [pc |-> "idle", method |-> "NONE", uri |-> "u1", post_cl |-> 0, xml |-> "none",
         status |-> 0, token |-> NoToken, overlap |-> FALSE]

-----------------------------------------------------------------------------
(* The resolvers alone: every request path up to MaxPathLen on every        *)
(* filesystem of InitFS                                                     *)

Items == StringsUpTo(MaxPathLen)

InitResolve ==
    /\ fs \in InitFS
    /\ fs0 = fs
    /\ resp = NoResp
    /\ phase = "fresh"
    /\ item \in Items
    /\ r_strict = NotRun
    /\ r_fake = NotRun
    /\ lock_cache = [u \in URIs |-> NoToken]
    /\ xattr = NoXattr
    /\ conf = Configured
    /\ wk = [w \in Workers |-> Idle]

ExpandPath ==
    /\ ~r_strict.done
    /\ r_strict' = Ran(uwsgi_webdav_expand_path(fs, item))
    /\ UNCHANGED <<fs, fs0, resp, phase, item, r_fake, lock_cache, wk, xattr, conf>>

ExpandFakePath ==
    /\ ~r_fake.done
    /\ r_fake' = Ran(uwsgi_webdav_expand_fake_path(fs, item))
    /\ UNCHANGED <<fs, fs0, resp, phase, item, r_strict, lock_cache, wk, xattr, conf>>

NextResolve == ExpandPath \/ ExpandFakePath

SpecResolve == InitResolve /\ [][NextResolve]_vars

\* a path string names the docroot or something below it
UnderDocroot(n) == n = DocrootStr \/ IsPrefix(DocrootStr \o Slash, n)

\* C1: the strict resolver returns failure (the empty string) or a canonical
\* path equal to the docroot or below it (docroot followed by '/').
C1_EscapeSafety == r_strict.done => (r_strict.name = <<>> \/ UnderDocroot(r_strict.name))

\* C3 as stated: whenever the strict resolver succeeds on a request path, the
\* parent resolver succeeds on it with the same string; and a request path
\* without '/' never yields a parent resolution.
C3_ParentParity ==
    (r_strict.done /\ r_fake.done) =>
        /\ r_strict.name # <<>> => r_fake.name = r_strict.name
        /\ LastSlash(item) = 0 => r_fake.name = <<>>

\* the part of a request path after its last '/'
Leaf(it) == SubSeq(it, LastSlash(it) + 1, Len(it))
\* the directory the part before the last '/' resolves to
PrefixDir(f, it) == Realpath(f, DocrootStr \o Slash \o SubSeq(it, 1, LastSlash(it) - 1))

\* the request path ends in an ordinary name (not empty, "." or ".."), that
\* name is not a symbolic link, and its parent is not the root directory
PlainLeaf(f, it) ==
    /\ LastSlash(it) > 0
    /\ ~SpecialName(Leaf(it))
    /\ LET d == PrefixDir(f, it)
       IN  /\ d.ok
           /\ d.path # <<>>
           /\ Exists(f, Append(d.path, Leaf(it))) => f[Append(d.path, Leaf(it))].kind # "link"

\* C3 as amended: when the strict resolver succeeds on a request path that
\* ends in an ordinary name which is not a symbolic link and whose parent is
\* not the root directory, the parent resolver succeeds with the same string;
\* and a request path without '/' never yields a parent resolution.
C3_ParentParityPlainLeaf ==
    (r_strict.done /\ r_fake.done) =>
        /\ (r_strict.name # <<>> /\ PlainLeaf(fs, item)) => r_fake.name = r_strict.name
        /\ LastSlash(item) = 0 => r_fake.name = <<>>

C3_Witness ==
    /\ r_strict.done /\ r_fake.done
    /\ r_strict.name # <<>>
    /\ PlainLeaf(fs, item)
    /\ Len(Split(item)) > 2
    /\ r_fake.name = r_strict.name

-----------------------------------------------------------------------------
(* Requests *)

Comps == {<<"a">>, <<"b">>, DotDot}

\* the request paths of exactly n components, without a trailing '/'
RECURSIVE PathsOf(_)
PathsOf(n) ==
    IF n = 0 THEN {<<>>}
    ELSE {p \o Slash \o c : p \in PathsOf(n - 1), c \in Comps}

\* PATH_INFO of a request: "/" or one to MaxComps components, each after a
\* '/', with or without a trailing '/'; never empty (uwsgi_webdav_request
\* answers an empty PATH_INFO with 403 before any handler runs)
PathInfos ==
    {Slash} \cup UNION {{p, p \o Slash} : p \in UNION {PathsOf(n) : n \in 1..MaxComps}}

BodyChars == {"x", "y"}
RECURSIVE BodiesUpTo(_)
BodiesUpTo(n) ==
    IF n = 0 THEN {<<>>}
    ELSE LET shorter == BodiesUpTo(n - 1)
         IN  shorter \cup {Append(s, c) : s \in {t \in shorter : Len(t) = n - 1}, c \in BodyChars}
Bodies == BodiesUpTo(MaxBodyLen)

\* the request's scheme (empty when unknown) and host
Http == <<"h", "t", "t", "p">>
Schemes == {<<>>, Http}
Host == <<"h">>

\* Destination headers: absent (empty), absolute URLs on the request's host,
\* and bare paths with no scheme and host at all
DestHeaders ==
    {<<>>} \cup {Http \o <<":", "/", "/">> \o Host \o p : p \in PathInfos}
    \cup {p \in PathInfos : Len(p) <= 2}

Overwrites == {"absent", "T", "F"}

\* what a read past the end of the request's variables can leave in the
\* destination path (undefined behaviour): any string
Garbage == {<<>>} \cup {p \in PathInfos : Len(p) <= 2}

U16(x) == x % 65536

\* uwsgi_response_prepare_headers: the status is (re)written, the last call wins
uwsgi_response_prepare_headers(st, code) == code

\* the state after a handler returned
Answer(r, f, ph) ==
    /\ resp' = r
    /\ fs' = f
    /\ fs0' = fs
    /\ phase' = ph
    /\ UNCHANGED <<item, r_strict, r_fake, lock_cache, wk, xattr, conf>>

Req(m, p) == [NoResp EXCEPT !.method = m, !.path = p]

\* where a harness is after a request: the first of two requests ("probe")
\* is followed by the second
After == IF phase = "probe" THEN "put" ELSE "done"
Status(r, code) == [r EXCEPT !.status = uwsgi_response_prepare_headers(r.status, code)]

\* OPTIONS (uwsgi_wevdav_manage_options)
Options ==
    /\ phase \in {"fresh", "put"}
    /\ Answer(Status(Req("OPTIONS", <<>>), 200), fs, "done")

\* the names a directory listing shows: the entries not starting with '.'
Listing(f, d) == {Last(q) : q \in {c \in Children(f, d) : Head(Last(c)) # "."}}

\* the descriptors (file descriptors and directory streams) a handler has
\* opened and closed
Opened(r, n) == [r EXCEPT !.opened = @ + n]
Closed(r, n) == [r EXCEPT !.closed = @ + n]
Header(r, names) == [r EXCEPT !.headers = @ \cup names]

\* uwsgi_get_mime_type: the type the mime table has for the file's name
uwsgi_get_mime_type(filename) == conf.mime

\* uwsgi_webdav_dirlist: the page is built in a buffer ("buffer": an append
\* before the directory is read fails), the directory is read with scandir
\* on Linux and with opendir/readdir_r elsewhere ("opendir", "read": they
\* fail; the result of opendir is not tested), one item is appended for each
\* entry shown ("append": that fails), the two headers are added ("header":
\* that fails) and the page is sent. Every failure jumps to the end of the
\* function, past the closedir of the loop
uwsgi_webdav_dirlist(r, f, dir, fault) ==
    LET shown == Listing(f, dir)
        page == [Header(r, {"Content-Type", "Content-Length"}) EXCEPT !.list = shown]
    IN  IF fault = "buffer" THEN r
        ELSE IF conf.linux
        THEN IF fault \in {"opendir", "read"} \/ (fault = "append" /\ shown # {}) THEN r
             ELSE IF fault = "header" THEN r
             ELSE page
        ELSE IF fault = "opendir" THEN [r EXCEPT !.ub = TRUE]
        ELSE IF fault = "read" \/ (fault = "append" /\ shown # {}) THEN Opened(r, 1)
        ELSE IF fault = "header" THEN Closed(Opened(r, 1), 1)
        ELSE Closed(Opened(page, 1), 1)

\* GET and HEAD (uwsgi_wevdav_manage_get with send_body 1 and 0); the faults
\* of a file: open or fstat fails, preparing the status line fails
\* ("prepare"), adding Last-Modified fails ("header"), read or the write of
\* the body fails
uwsgi_wevdav_manage_get(m, p, send_body, fault) ==
    LET r0 == [Req(m, p) EXCEPT !.fault = fault]
        filename == uwsgi_webdav_expand_path(fs, p)
        r1 == [r0 EXCEPT !.filename = filename]
        ph == After
    IN  IF filename = <<>> THEN Answer(Status(r1, 404), fs, ph)
        ELSE IF uwsgi_is_dir(fs, filename)
        THEN Answer(IF send_body
                    THEN uwsgi_webdav_dirlist(Status(r1, 200), fs,
                                              Realpath(fs, filename).path, fault)
                    ELSE Status(r1, 200), fs, ph)
        ELSE LET o == sys_open_rdonly(fs, filename)
                 r2 == Opened(r1, 1)
                 end == Closed(r2, 1)
                 size == Header([Status(end, 200) EXCEPT !.clen = Len(fs[o.path].data)],
                                {"Content-Length"})
                 all == Header(size, {"Last-Modified"}
                                     \cup IF uwsgi_get_mime_type(filename)
                                          THEN {"Content-Type"} ELSE {})
             IN  IF fault = "open" \/ ~o.ok THEN Answer(Status(r1, 403), fs, ph)
                 ELSE IF fault = "fstat" THEN Answer(Status(end, 403), fs, ph)
                 ELSE IF fault = "prepare" THEN Answer(end, fs, ph)
                 ELSE IF fault = "header" THEN Answer(size, fs, ph)
                 ELSE IF ~send_body \/ fault \in {"read", "write"} THEN Answer(all, fs, ph)
                 ELSE Answer([all EXCEPT !.out = fs[o.path].data], fs, ph)

\* the faults a GET or HEAD of p can meet: open() is reached for files only
ReadFaults(p) ==
    LET filename == uwsgi_webdav_expand_path(fs, p)
    IN  IF filename = <<>> \/ uwsgi_is_dir(fs, filename) THEN {"none"} ELSE {"none", "open"}

Get ==
    /\ phase \in {"fresh", "put"}
    /\ \E p \in PathInfos : \E fault \in ReadFaults(p) :
          uwsgi_wevdav_manage_get("GET", p, TRUE, fault)

Head_ ==
    /\ phase \in {"fresh", "put"}
    /\ \E p \in PathInfos : \E fault \in ReadFaults(p) :
          uwsgi_wevdav_manage_get("HEAD", p, FALSE, fault)

\* PUT (uwsgi_wevdav_manage_put); fault "write" is a write that stores only
\* the first k bytes of the body (a failed or short write, a client gone),
\* fault "prepare" a status line that cannot be prepared
uwsgi_wevdav_manage_put(p, body, fault, k) ==
    LET r0 == [Req("PUT", p) EXCEPT !.body = body, !.fault = fault]
        strict == uwsgi_webdav_expand_path(fs, p)
        filename == IF strict # <<>> THEN strict ELSE uwsgi_webdav_expand_fake_path(fs, p)
        r1 == [r0 EXCEPT !.filename = filename, !.exists = strict # <<>>]
        end == Closed(Opened(r1, 1), 1)
        ph == IF phase = "session" THEN "put" ELSE "done"
    IN  IF filename = <<>> THEN Answer(Status(r1, 409), fs, ph)
        ELSE LET o == sys_open_creat(fs, filename, MaxSymlinks)
             IN  IF fault = "open" \/ ~o.ok THEN Answer(Status(r1, 403), fs, ph)
                 ELSE IF fault = "prepare" THEN Answer(end, o.fs, ph)
                 ELSE LET written == IF fault = "write" THEN SubSeq(body, 1, k) ELSE body
                      IN  Answer(Status(end, 201),
                                 IF written = <<>> THEN o.fs ELSE sys_write(o.fs, o.path, written),
                                 ph)

Put ==
    /\ phase \in {"fresh", "session"}
    /\ \E p \in PathInfos, body \in Bodies :
          \/ \E fault \in {"none", "open"} : uwsgi_wevdav_manage_put(p, body, fault, 0)
          \/ \E k \in 0..(Len(body) - 1) : uwsgi_wevdav_manage_put(p, body, "write", k)

\* the unlink/rmdir calls, the opendir calls and the closedir calls a DELETE
\* has made
NoCalls == [rm |-> 0, dirs |-> 0, closed |-> 0]

\* the injected fault hits the n-th call of its kind
Fails(fault, k, kind, n) == fault = kind /\ n = k

RECURSIVE uwsgi_webdav_massive_delete(_, _, _, _, _)
RECURSIVE DeleteEntries(_, _, _, _, _)

\* what a traversal returns: whether it went through, the filesystem and the
\* calls after it, and whether it met undefined behaviour
Stopped(f, c, ub) == [ok |-> FALSE, fs |-> f, c |-> c, ub |-> ub]
Went(f, c) == [ok |-> TRUE, fs |-> f, c |-> c, ub |-> FALSE]

\* the loop after an unlink that returned u, after a recursion that returned
\* r, and the end of the function after the rmdir that returned r
\* closedir at the end of uwsgi_webdav_massive_delete
Closedir(c) == [c EXCEPT !.closed = @ + 1]

AfterUnlink(u, f, dir, fault, k, c1) ==
    IF Fails(fault, k, "rm", c1.rm) \/ ~u.ok THEN Stopped(f, Closedir(c1), FALSE)
    ELSE DeleteEntries(u.fs, dir, fault, k, c1)

AfterSubdir(r, dir, fault, k) ==
    IF ~r.ok THEN [r EXCEPT !.c = Closedir(@)] ELSE DeleteEntries(r.fs, dir, fault, k, r.c)

AfterRmdir(r, f, fault, k, c1) ==
    IF Fails(fault, k, "rm", c1.rm) \/ ~r.ok THEN Stopped(f, Closedir(c1), FALSE)
    ELSE Went(r.fs, Closedir(c1))

\* a step that tells a directory by stat(), which follows a symbolic link,
\* instead of by the entry's own type
DeleteEntry_following_links(de, f, dir, fault, k, c) ==
    IF Realpath(f, PathStr(de)).ok /\ IsDir(f, Realpath(f, PathStr(de)).path)
    THEN AfterSubdir(uwsgi_webdav_massive_delete(f, Realpath(f, PathStr(de)).path, fault, k, c),
                     dir, fault, k)
    ELSE AfterUnlink(sys_unlink(f, PathStr(de)), f, dir, fault, k, [c EXCEPT !.rm = @ + 1])

\* one turn of the readdir_r loop, on the entry de: an entry of type DT_DIR is
\* removed by recursion, any other entry (a symbolic link too) by unlink; the
\* first failure ends the loop
DeleteEntry(de, f, dir, fault, k, c) ==
    IF IsDir(f, de)
    THEN AfterSubdir(uwsgi_webdav_massive_delete(f, de, fault, k, c), dir, fault, k)
    ELSE AfterUnlink(sys_unlink(f, PathStr(de)), f, dir, fault, k, [c EXCEPT !.rm = @ + 1])

\* the readdir_r loop of uwsgi_webdav_massive_delete and the rmdir after it.
\* The order of the entries is the directory's, here one fixed order
DeleteEntries(f, dir, fault, k, c) ==
    IF Children(f, dir) = {}
    THEN AfterRmdir(sys_rmdir(f, PathStr(dir)), f, fault, k, [c EXCEPT !.rm = @ + 1])
    ELSE DeleteEntry(CHOOSE q \in Children(f, dir) : TRUE, f, dir, fault, k, c)

\* uwsgi_webdav_massive_delete: opendir (its result is not tested: after a
\* failed opendir, readdir_r reads through a null pointer, ub), the loop,
\* rmdir; fault "read" is a readdir_r that returns an error
uwsgi_webdav_massive_delete(f, dir, fault, k, c) ==
    IF Fails(fault, k, "opendir", c.dirs + 1)
    THEN Stopped(f, [c EXCEPT !.dirs = @ + 1], TRUE)
    ELSE IF Fails(fault, k, "read", c.dirs + 1)
    THEN Stopped(f, Closedir([c EXCEPT !.dirs = @ + 1]), FALSE)
    ELSE DeleteEntries(f, dir, fault, k, [c EXCEPT !.dirs = @ + 1])

\* the request record of a DELETE that made the calls c: the fault is
\* recorded when a call met it
Deleted(r, fault, k, c) ==
    LET met == IF fault = "rm" THEN c.rm >= k ELSE fault # "none" /\ c.dirs >= k
    IN  [r EXCEPT !.calls = c.rm, !.opened = c.dirs, !.closed = c.closed,
                  !.fault = IF met THEN fault ELSE "none",
                  !.k = IF met THEN k ELSE 0]

\* the answer after uwsgi_webdav_massive_delete returned md: 200 or 403;
\* after undefined behaviour, no answer or the 403 of a traversal that failed
AnswerDelete(r1, fault, k, md) ==
    IF md.ub
    THEN \/ Answer([Deleted(r1, fault, k, md.c) EXCEPT !.ub = TRUE], md.fs, "done")
         \/ Answer(Status([Deleted(r1, fault, k, md.c) EXCEPT !.ub = TRUE], 403), md.fs, "done")
    ELSE Answer(Status(Deleted(r1, fault, k, md.c), IF md.ok THEN 200 ELSE 403), md.fs, "done")

AnswerIgnoring(r1, fault, k, md) ==
    Answer(Status(Deleted(r1, fault, k, md.c), 200), md.fs, "done")

\* a DELETE that does not look at what uwsgi_webdav_massive_delete returned
manage_delete_ignoring_result(p, fault, k) ==
    LET filename == uwsgi_webdav_expand_path(fs, p)
        r1 == [Req("DELETE", p) EXCEPT !.filename = filename]
        c1 == [NoCalls EXCEPT !.rm = 1]
        r2 == Deleted(r1, fault, k, c1)
    IN  IF filename = <<>> THEN Answer(Status(r1, 404), fs, "done")
        ELSE IF uwsgi_is_dir(fs, filename)
        THEN LET rd == sys_rmdir(fs, filename)
             IN  IF Fails(fault, k, "rm", 1) THEN Answer(Status(r2, 403), fs, "done")
                 ELSE IF rd.ok THEN Answer(Status(r2, 200), rd.fs, "done")
                 ELSE IF rd.notempty
                 THEN AnswerIgnoring(r1, fault, k,
                          uwsgi_webdav_massive_delete(fs, Realpath(fs, filename).path,
                                                      fault, k, c1))
                 ELSE Answer(Status(r2, 403), fs, "done")
        ELSE LET u == sys_unlink(fs, filename)
             IN  IF Fails(fault, k, "rm", 1) \/ ~u.ok THEN Answer(Status(r2, 403), fs, "done")
                 ELSE Answer(Status(r2, 200), u.fs, "done")

\* DELETE (uwsgi_wevdav_manage_delete); fault "rm" makes the k-th unlink or
\* rmdir of the request fail for a reason of its own (EACCES, EBUSY, ...),
\* "opendir" and "read" the opendir and the readdir_r of the k-th directory
\* the traversal enters
uwsgi_wevdav_manage_delete(p, fault, k) ==
    LET filename == uwsgi_webdav_expand_path(fs, p)
        r1 == [Req("DELETE", p) EXCEPT !.filename = filename]
        c1 == [NoCalls EXCEPT !.rm = 1]
        r2 == Deleted(r1, fault, k, c1)
    IN  IF filename = <<>> THEN Answer(Status(r1, 404), fs, "done")
        ELSE IF uwsgi_is_dir(fs, filename)
        THEN LET rd == sys_rmdir(fs, filename)
             IN  IF Fails(fault, k, "rm", 1) THEN Answer(Status(r2, 403), fs, "done")
                 ELSE IF rd.ok THEN Answer(Status(r2, 200), rd.fs, "done")
                 ELSE IF rd.notempty
                 THEN AnswerDelete(r1, fault, k,
                          uwsgi_webdav_massive_delete(fs, Realpath(fs, filename).path,
                                                      fault, k, c1))
                 ELSE Answer(Status(r2, 403), fs, "done")
        ELSE LET u == sys_unlink(fs, filename)
             IN  IF Fails(fault, k, "rm", 1) \/ ~u.ok THEN Answer(Status(r2, 403), fs, "done")
                 ELSE Answer(Status(r2, 200), u.fs, "done")

DeleteFaults == {"rm", "opendir", "read"}

Delete ==
    /\ phase = "fresh"
    /\ \E p \in PathInfos :
          \/ uwsgi_wevdav_manage_delete(p, "none", 0)
          \/ \E fault \in DeleteFaults, k \in 1..MaxFaultAt :
                uwsgi_wevdav_manage_delete(p, fault, k)

\* a MOVE that renames before it looks at the destination's parent, and
\* answers 204 whether or not the destination existed
MoveTo_rename_first(r2, filename, d_item, can_overwrite, fault) ==
    LET d_strict == uwsgi_webdav_expand_path(fs, d_item)
        already_exists == d_strict # <<>>
        d_filename == IF already_exists THEN d_strict
                      ELSE uwsgi_webdav_expand_fake_path(fs, d_item)
        r3 == [r2 EXCEPT !.d_filename = d_filename, !.exists = already_exists]
    IN  IF already_exists /\ ~can_overwrite THEN Answer(Status(r3, 412), fs, "done")
        ELSE IF d_filename = <<>> THEN Answer(Status(r3, 403), fs, "done")
        ELSE \E flt \in fault :
                LET rn == sys_rename(fs, filename, d_filename)
                    r4 == [r3 EXCEPT !.fault = flt]
                IN  IF flt = "io" \/ ~rn.ok THEN Answer(Status(r4, 403), fs, "done")
                    ELSE Answer(Status(r4, 204), rn.fs, "done")

\* the rest of MOVE once the destination path d_item is known
MoveTo(r2, filename, d_item, can_overwrite, fault) ==
    LET d_strict == uwsgi_webdav_expand_path(fs, d_item)
        already_exists == d_strict # <<>>
        d_filename == IF already_exists THEN d_strict
                      ELSE uwsgi_webdav_expand_fake_path(fs, d_item)
        r3 == [r2 EXCEPT !.d_filename = d_filename, !.exists = already_exists]
    IN  IF already_exists /\ ~can_overwrite THEN Answer(Status(r3, 412), fs, "done")
        ELSE IF d_filename = <<>> THEN Answer(Status(r3, 409), fs, "done")
        ELSE \E flt \in fault :
                LET rn == sys_rename(fs, filename, d_filename)
                    r4 == [r3 EXCEPT !.fault = flt]
                IN  IF flt = "io" \/ ~rn.ok THEN Answer(Status(r4, 403), fs, "done")
                    ELSE Answer(Status(r4, IF already_exists THEN 204 ELSE 201),
                                rn.fs, "done")

\* MOVE (uwsgi_wevdav_manage_move): the destination path is the Destination
\* header from byte skip on, skip and the remaining length being 16 bit
\* unsigned; a skip beyond the header's end reads memory past the variable
uwsgi_wevdav_manage_move(p) ==
    LET filename == uwsgi_webdav_expand_path(fs, p)
        r1 == [Req("MOVE", p) EXCEPT !.filename = filename]
    IN  IF filename = <<>> THEN Answer(Status(r1, 404), fs, "done")
        ELSE \E destination \in DestHeaders :
            IF Len(destination) = 0
            THEN Answer(Status([r1 EXCEPT !.dest = destination], 403), fs, "done")
            ELSE \E overwrite \in Overwrites, scheme \in Schemes :
                LET can_overwrite == overwrite # "F"
                    scheme_len == IF Len(scheme) = 0 THEN 4 ELSE Len(scheme)
                    skip == U16(scheme_len + 3 + Len(Host))
                    d_len == U16(Len(destination) - skip)
                    r2 == [r1 EXCEPT !.dest = destination, !.ow = overwrite,
                                     !.scheme = scheme]
                IN  IF skip <= Len(destination)
                    THEN MoveTo(r2, filename, SubSeq(destination, skip + 1, skip + d_len),
                                can_overwrite, {"none", "io"})
                    ELSE \/ \E g \in Garbage :
                               MoveTo([r2 EXCEPT !.ub = TRUE], filename, g, can_overwrite,
                                      {"none"})
                         \/ Answer([r2 EXCEPT !.ub = TRUE], fs, "done")

Move ==
    /\ phase = "fresh"
    /\ \E p \in PathInfos : uwsgi_wevdav_manage_move(p)

\* a MKCOL that does not look for an existing target before mkdir
manage_mkcol_without_exists_check(p, body, fault) ==
    LET r0 == [Req("MKCOL", p) EXCEPT !.body = body]
        strict == uwsgi_webdav_expand_path(fs, p)
        path_info == IF Len(p) > 1 /\ Last(p) = "/" THEN Front(p) ELSE p
        filename == uwsgi_webdav_expand_fake_path(fs, path_info)
        r1 == [r0 EXCEPT !.exists = strict # <<>>,
                         !.filename = IF strict # <<>> THEN strict ELSE filename]
    IN  IF Len(body) > 0 THEN Answer(Status(r0, 415), fs, After)
        ELSE IF filename = <<>> THEN Answer(Status(r1, 409), fs, After)
        ELSE LET md == sys_mkdir(fs, filename)
                 r2 == [r1 EXCEPT !.fault = fault]
             IN  IF fault = "io" \/ ~md.ok
                 THEN Answer(Status(Status(r2, 409), 201), fs, After)
                 ELSE Answer(Status(r2, 201), md.fs, After)

\* MKCOL (uwsgi_wevdav_manage_mkcol); fault "io" makes mkdir fail for a
\* reason of its own (EACCES, ENOSPC, ...)
uwsgi_wevdav_manage_mkcol(p, body, fault) ==
    LET r0 == [Req("MKCOL", p) EXCEPT !.body = body]
        strict == uwsgi_webdav_expand_path(fs, p)
        path_info == IF Len(p) > 1 /\ Last(p) = "/" THEN Front(p) ELSE p
        filename == uwsgi_webdav_expand_fake_path(fs, path_info)
        r1 == [r0 EXCEPT !.exists = strict # <<>>,
                         !.filename = IF strict # <<>> THEN strict ELSE filename]
    IN  IF Len(body) > 0 THEN Answer(Status(r0, 415), fs, After)
        ELSE IF strict # <<>> THEN Answer(Status(r1, 405), fs, After)
        ELSE IF filename = <<>> THEN Answer(Status(r1, 409), fs, After)
        ELSE LET md == sys_mkdir(fs, filename)
                 r2 == [r1 EXCEPT !.fault = fault]
             IN  IF fault = "io" \/ ~md.ok
                 THEN Answer(Status(Status(r2, 409), 201), fs, After)
                 ELSE Answer(Status(r2, 201), md.fs, After)

Mkcol ==
    /\ phase \in {"fresh", "probe"}
    /\ \E p \in PathInfos, body \in Bodies :
          IF Len(body) > 0 \/ uwsgi_webdav_expand_path(fs, p) # <<>>
          THEN uwsgi_wevdav_manage_mkcol(p, body, "none")
          ELSE \E fault \in {"none", "io"} : uwsgi_wevdav_manage_mkcol(p, body, fault)

Init ==
    /\ fs \in InitFS
    /\ fs0 = fs
    /\ resp = NoResp
    /\ phase = "fresh"
    /\ item = <<>>
    /\ r_strict = NotRun
    /\ r_fake = NotRun
    /\ lock_cache = [u \in URIs |-> NoToken]
    /\ xattr = NoXattr
    /\ conf = Configured
    /\ wk = [w \in Workers |-> Idle]

Next == Options \/ Get \/ Head_ \/ Put \/ Delete \/ Move \/ Mkcol

\* one request, of any method, on any filesystem of InitFS
Spec == Init /\ [][Next]_vars

InitSession ==
    /\ fs \in InitFS
    /\ fs0 = fs
    /\ resp = NoResp
    /\ phase = "session"
    /\ item = <<>>
    /\ r_strict = NotRun
    /\ r_fake = NotRun
    /\ lock_cache = [u \in URIs |-> NoToken]
    /\ xattr = NoXattr
    /\ conf = Configured
    /\ wk = [w \in Workers |-> Idle]

NextSession == Put \/ Get \/ Head_ \/ Options

\* a PUT on any filesystem of InitFS and then one GET, HEAD or OPTIONS
SpecSession == InitSession /\ [][NextSession]_vars

-----------------------------------------------------------------------------
(* LOCK and UNLOCK under two workers                                        *)
(*                                                                          *)
(* Each worker takes a request, runs the dispatcher's step for it (the body *)
(* read and XML parse are a suspension point) and then the handler.         *)
(* overlap records that another worker's request was in flight at some      *)
(* moment of this one.                                                      *)

InFlight(w) == wk[w].pc \in {"dispatch", "handler"}

LockFrame == UNCHANGED <<fs, fs0, resp, phase, item, r_strict, r_fake, xattr, conf>>

\* a LOCK or UNLOCK request reaches uwsgi_webdav_request in worker w
Receive(w) ==
    /\ wk[w].pc \in {"idle", "done"}
    /\ \E m \in {"LOCK", "UNLOCK"}, u \in URIs, b \in {"none", "xml", "junk"} :
          wk' = [o \in Workers |->
                    IF o = w
                    THEN [Idle EXCEPT !.pc = "dispatch", !.method = m, !.uri = u,
                                      !.post_cl = IF b = "none" THEN 0 ELSE 1, !.xml = b,
                                      !.overlap = \E x \in Workers \ {w} : InFlight(x)]
                    ELSE IF InFlight(o) THEN [wk[o] EXCEPT !.overlap = TRUE] ELSE wk[o]]
    /\ UNCHANGED lock_cache
    /\ LockFrame

\* uwsgi_webdav_request, the LOCK branch: a body is read and parsed, and a
\* body that does not parse ends the request at the label end
DispatchLock(w) ==
    /\ wk[w].pc = "dispatch"
    /\ wk[w].method = "LOCK"
    /\ wk' = [wk EXCEPT ![w].pc =
                 IF wk[w].post_cl > 0 /\ wk[w].xml = "junk" THEN "done" ELSE "handler"]
    /\ UNCHANGED lock_cache
    /\ LockFrame

\* uwsgi_wevdav_manage_lock: 201 Created, whatever the cache holds
uwsgi_wevdav_manage_lock(w) ==
    /\ wk[w].pc = "handler"
    /\ wk' = [wk EXCEPT ![w].pc = "done",
                        ![w].status = uwsgi_response_prepare_headers(wk[w].status, 201)]
    /\ UNCHANGED lock_cache
    /\ LockFrame

\* uwsgi_webdav_request on UNLOCK: no branch matches the method, the request
\* falls through to the label end
DispatchUnlock(w) ==
    /\ wk[w].pc = "dispatch"
    /\ wk[w].method = "UNLOCK"
    /\ wk' = [wk EXCEPT ![w].pc = "done"]
    /\ UNCHANGED lock_cache
    /\ LockFrame

InitLock ==
    /\ fs \in {Outside}
    /\ fs0 = fs
    /\ resp = NoResp
    /\ phase = "done"
    /\ item = <<>>
    /\ r_strict = NotRun
    /\ r_fake = NotRun
    /\ lock_cache = [u \in URIs |-> NoToken]
    /\ xattr = NoXattr
    /\ conf = Configured
    /\ wk = [w \in Workers |-> Idle]

NextLock ==
    \E w \in Workers :
        Receive(w) \/ DispatchLock(w) \/ uwsgi_wevdav_manage_lock(w) \/ DispatchUnlock(w)

SpecLock == InitLock /\ [][NextLock]_vars

Granted(w) == wk[w].pc = "done" /\ wk[w].method = "LOCK" /\ wk[w].status \in {200, 201}

\* C4: two LOCK requests for the same URI handled concurrently by two workers
\* end with exactly one of them granted and the other answered 423, and the
\* granted one's token is what the lock cache holds under the URI.
C4_LockExclusion ==
    \A w1, w2 \in Workers :
        (/\ w1 # w2
         /\ wk[w1].pc = "done" /\ wk[w2].pc = "done"
         /\ wk[w1].method = "LOCK" /\ wk[w2].method = "LOCK"
         /\ wk[w1].xml # "junk" /\ wk[w2].xml # "junk"
         /\ wk[w1].uri = wk[w2].uri
         /\ wk[w1].overlap /\ wk[w2].overlap)
        => \E g, r \in {w1, w2} :
              /\ g # r
              /\ Granted(g)
              /\ wk[r].status = 423
              /\ wk[g].token # NoToken
              /\ lock_cache[wk[g].uri] = wk[g].token

\* C5: a lock is absent or held; while the lock a LOCK on a URI was granted
\* is held (no UNLOCK was answered 204 since), a LOCK on the same URI that
\* carries no token and is handled after it is rejected with 423.
C5_LockLifecycle ==
    \A w1, w2 \in Workers :
        (/\ w1 # w2
         /\ Granted(w1)
         /\ wk[w2].pc = "done" /\ wk[w2].method = "LOCK" /\ wk[w2].xml # "junk"
         /\ wk[w1].uri = wk[w2].uri
         /\ ~wk[w1].overlap /\ ~wk[w2].overlap)
        => wk[w2].status = 423

-----------------------------------------------------------------------------
(* Properties of a request's effect on the filesystem *)

Changed(p) ==
    \/ Exists(fs, p) # Exists(fs0, p)
    \/ Exists(fs, p) /\ Exists(fs0, p) /\ fs[p] # fs0[p]

\* the paths the last request created, wrote, renamed (from or to) or removed
Touched == {p \in DOMAIN fs \cup DOMAIN fs0 : Changed(p)}

\* what was at src (with all below it) is now at dst, and src is gone
MovedTo(src, dst) ==
    /\ ~Exists(fs, src)
    /\ \A q \in Subtree(fs0, src) :
          LET r == dst \o SubSeq(q, Len(src) + 1, Len(q))
          IN  Exists(fs, r) /\ fs[r] = fs0[q]
    /\ Cardinality(Subtree(fs, dst)) = Cardinality(Subtree(fs0, src))

\* the entry a path string names, the last component not followed
EntryOf(f, s) == LET pr == LookupParent(f, s) IN Append(pr.dir, pr.name)

\* C2: whatever a PUT, MKCOL, MOVE or DELETE created, wrote, renamed or
\* removed lies at the docroot or below it, and the path the parent resolver
\* returned to it is the docroot or below it.
C2_Confinement ==
    resp.method \in {"PUT", "MKCOL", "MOVE", "DELETE"} =>
        /\ \A p \in Touched : IsPrefix(Docroot, p)
        /\ (resp.method \in {"PUT", "MKCOL"} /\ ~resp.exists) =>
              (resp.filename = <<>> \/ UnderDocroot(resp.filename))
        /\ (resp.method = "MOVE" /\ ~resp.exists) =>
              (resp.d_filename = <<>> \/ UnderDocroot(resp.d_filename))

\* C6: a PUT of body B on a path in the docroot whose parent exists and which
\* names no resource or a regular file answers 201, and the GET of the same path that
\* follows it answers 200 with body B and Content-Length Len(B) (no open or
\* write failing for a reason of its own).
C6_PutGetRoundTrip ==
    [][(/\ resp.method = "PUT" /\ resp.fault = "none"
        /\ resp.filename # <<>> /\ UnderDocroot(resp.filename)
        /\ LET t == Realpath(fs0, DocrootStr \o Slash \o resp.path)
           IN  IF t.ok THEN fs0[t.path].kind = "file"
               ELSE ~SpecialName(Leaf(resp.path)) /\ ~Exists(fs0, EntryOf(fs0, resp.filename))
        /\ resp'.method = "GET" /\ resp'.fault = "none"
        /\ resp'.path = resp.path)
       => (/\ resp.status = 201
           /\ resp'.status = 200
           /\ resp'.out = resp.body
           /\ resp'.clen = Len(resp.body))]_vars

\* scheme, "://" and host, the scheme being http when the request's is unknown
DestPrefix(scheme) ==
    (IF scheme = <<>> THEN Http ELSE scheme) \o <<":", "/", "/">> \o Host

\* the Destination header is an absolute URL on the request's scheme and host
AbsoluteDest(r) == r.method = "MOVE" /\ IsPrefix(DestPrefix(r.scheme), r.dest)

\* the Destination header without scheme, "://" and host
DestPath(r) == SubSeq(r.dest, Len(DestPrefix(r.scheme)) + 1, Len(r.dest))

\* C7: a MOVE of an existing source onto a destination that resolves to an
\* existing resource, both in the docroot and neither inside the other, with
\* Overwrite: F, answers 412 and changes nothing; with
\* any other Overwrite or none it answers 204, the destination then holds what
\* the source held and the source is gone (no rename failing for a reason of
\* its own).
C7_MoveOverwrite ==
    (/\ AbsoluteDest(resp)
     /\ resp.fault = "none"
     /\ resp.filename # <<>> /\ UnderDocroot(resp.filename)
     /\ UnderDocroot(uwsgi_webdav_expand_path(fs0, DestPath(resp)))
     /\ ~IsPrefix(resp.filename, uwsgi_webdav_expand_path(fs0, DestPath(resp)))
     /\ ~IsPrefix(uwsgi_webdav_expand_path(fs0, DestPath(resp)), resp.filename))
    => IF resp.ow = "F"
       THEN resp.status = 412 /\ fs = fs0
       ELSE /\ resp.status = 204
            /\ MovedTo(EntryOf(fs0, resp.filename),
                       EntryOf(fs0, uwsgi_webdav_expand_path(fs0, DestPath(resp))))

MkcolParent(p) ==
    LET cs == StripTrail(Split(p))
    IN  Walk(fs0, Docroot, IF cs = <<>> THEN cs ELSE Front(cs), MaxSymlinks)

\* C9: a MKCOL with a body answers 415; without a body, on a path that
\* resolves to an existing resource it answers 405, and on a path that does not
\* resolve and whose parent does not resolve either it answers 409; none of
\* the three changes the filesystem.
C9_MkcolFailures ==
    resp.method = "MKCOL" =>
        LET target == uwsgi_webdav_expand_path(fs0, resp.path)
        IN  /\ Len(resp.body) > 0 => (resp.status = 415 /\ fs = fs0)
            /\ (Len(resp.body) = 0 /\ target # <<>>) => (resp.status = 405 /\ fs = fs0)
            /\ (Len(resp.body) = 0 /\ target = <<>> /\ ~MkcolParent(resp.path).ok) =>
                  (resp.status = 409 /\ fs = fs0)

C9_Witness ==
    /\ resp.method = "MKCOL"
    /\ Len(resp.body) = 0
    /\ Len(StripTrail(Split(resp.path))) = 3
    /\ Last(resp.path) = "/"
    /\ ~MkcolParent(resp.path).ok
    /\ resp.status = 409

\* C10: a MKCOL ends with status 201 only if its mkdir created the
\* collection: a directory that was not there before the request.
C10_MkcolTruthful ==
    (resp.method = "MKCOL" /\ resp.status = 201) =>
        \E p \in DOMAIN fs \ DOMAIN fs0 : fs[p].kind = "dir"

-----------------------------------------------------------------------------
(* DELETE on deeper trees *)

\* what /s/a is when DELETE meets it: a file; a directory of two files; a
\* directory nested twice or three times; a directory holding a link to the
\* directory /e outside the docroot; a directory holding a link to the file
\* /s/b and a subdirectory with a link to /e
TreesA ==
    LET a == InDocroot(<< <<"a">> >>)
        aa == InDocroot(<< <<"a">>, <<"a">> >>)
        ab == InDocroot(<< <<"a">>, <<"b">> >>)
        aba == InDocroot(<< <<"a">>, <<"b">>, <<"a">> >>)
        abb == InDocroot(<< <<"a">>, <<"b">>, <<"b">> >>)
        abba == InDocroot(<< <<"a">>, <<"b">>, <<"b">>, <<"a">> >>)
    IN  { a :> File(<<"x">>),
          (a :> Dir) @@ (aa :> File(<<"x">>)) @@ (ab :> File(<<"y">>)),
          (a :> Dir) @@ (ab :> Dir) @@ (aba :> File(<<"x">>)),
          (a :> Dir) @@ (aa :> File(<<"x">>)) @@ (ab :> Dir) @@ (abb :> Dir)
             @@ (abba :> File(<<"y">>)),
          (a :> Dir) @@ (aa :> Link(<<"/", "e">>)) @@ (ab :> File(<<"y">>)),
          (a :> Dir) @@ (aa :> Link(<<"/", "s", "/", "b">>)) @@ (ab :> Dir)
             @@ (aba :> Link(<<"/", "e">>)) }

\* beside it /s/b, a file, and what is outside the docroot
DeleteFS == { t @@ (InDocroot(<< <<"b">> >>) :> File(<<"y">>)) @@ Outside : t \in TreesA }

InitDelete ==
    /\ fs \in DeleteFS
    /\ fs0 = fs
    /\ resp = NoResp
    /\ phase = "fresh"
    /\ item = <<>>
    /\ r_strict = NotRun
    /\ r_fake = NotRun
    /\ lock_cache = [u \in URIs |-> NoToken]
    /\ xattr = NoXattr
    /\ conf = Configured
    /\ wk = [w \in Workers |-> Idle]

NextDelete == Delete

\* one DELETE, with or without a failing call, on any filesystem of DeleteFS
SpecDelete == InitDelete /\ [][NextDelete]_vars

\* what the request path of the last request resolved to before the request
Target == Realpath(fs0, DocrootStr \o Slash \o resp.path)

\* C11: a DELETE answered 200 leaves the resource its path resolved to, and
\* everything below it, absent; a DELETE on a path that does not resolve is
\* answered 404 and changes nothing.
C11_DeleteSubtree ==
    resp.method = "DELETE" =>
        /\ ~Target.ok => (resp.status = 404 /\ fs = fs0)
        /\ (Target.ok /\ resp.status = 200) =>
              /\ Subtree(fs0, Target.path) \cap DOMAIN fs = {}
              /\ uwsgi_webdav_expand_path(fs, resp.path) = <<>>

C11_Witness ==
    /\ resp.method = "DELETE"
    /\ Target.ok
    /\ resp.status = 200
    /\ \E q \in Subtree(fs0, Target.path) :
          Len(q) >= Len(Target.path) + 3 /\ fs0[q].kind = "file"
    /\ \E q \in Children(fs0, Target.path) : fs0[q].kind = "file"

\* C12: a DELETE in which an unlink, an rmdir, an opendir or a directory
\* read fails is answered 403, and a failed unlink or rmdir is the last such
\* call the request makes; a DELETE answered 200 leaves its target absent.
C12_DeleteErrors ==
    resp.method = "DELETE" =>
        /\ resp.fault \in DeleteFaults =>
              (resp.status = 403 /\ (resp.fault = "rm" => resp.calls = resp.k))
        /\ (Target.ok /\ resp.status = 200) => ~Exists(fs, Target.path)

\* C13: a DELETE removes nothing outside the subtree of its target and
\* changes nothing it leaves: a symbolic link in the subtree is removed, what
\* it points to stays as it was.
C13_DeleteNoFollow ==
    (resp.method = "DELETE" /\ Target.ok) =>
        /\ DOMAIN fs \subseteq DOMAIN fs0
        /\ \A q \in DOMAIN fs : fs[q] = fs0[q]
        /\ \A q \in DOMAIN fs0 \ DOMAIN fs : IsPrefix(Target.path, q)

C13_Witness ==
    /\ resp.method = "DELETE"
    /\ Target.ok
    /\ resp.status = 200
    /\ \E q \in Subtree(fs0, Target.path) :
          /\ Len(q) >= Len(Target.path) + 2
          /\ fs0[q].kind = "link"
          /\ LET to == Realpath(fs0, fs0[q].data)
             IN  to.ok /\ IsDir(fs0, to.path) /\ Children(fs0, to.path) # {}
                 /\ Subtree(fs0, to.path) \subseteq DOMAIN fs

-----------------------------------------------------------------------------
(* Dead properties: extended attributes *)

\* the attribute names of the property store start with "user.uwsgi.webdav."
XattrPrefix == <<"user.uwsgi.webdav.">>

\* the attributes of the file at a canonical path
XattrOf(x, path) == IF path \in DOMAIN x THEN x[path] ELSE <<>>

\* the attributes x with those of path replaced by m
WithXattr(x, path, m) ==
    LET others == DOMAIN x \ {path}
    IN  IF DOMAIN m = {}
        THEN IF others = {} THEN NoXattr ELSE [q \in others |-> x[q]]
        ELSE (path :> m) @@ x

\* the name uwsgi_webdav_prop_set and uwsgi_webdav_prop_del build:
\* "user.uwsgi.webdav." ns "|" attr, or "user.uwsgi.webdav." attr without ns
XattrName(ns, attr) ==
    IF ns # <<>> THEN XattrPrefix \o ns \o <<"|">> \o attr ELSE XattrPrefix \o attr

\* the body handed to setxattr: the content of the element's first child,
\* "" when it has none; an element child has no content (a null pointer)
NoVal == [kind |-> "none", text |-> <<>>]
TextVal(t) == [kind |-> "text", text |-> t]
ElementVal == [kind |-> "element", text |-> <<>>]

\* the injected fault hits the n-th setxattr/removexattr of the request
XattrFails(ctx, n) == ctx.fault = "xattr" /\ n = ctx.k

\* uwsgi_webdav_prop_set: setxattr(filename, name, body, strlen(body), 0);
\* without __linux__ nothing is called and 0 is returned
uwsgi_webdav_prop_set(ctx, x, n, ns, attr, val) ==
    IF ~conf.linux THEN [ret |-> 0, x |-> x, n |-> n, ub |-> FALSE]
    ELSE IF val.kind = "element" THEN [ret |-> -1, x |-> x, n |-> n, ub |-> TRUE]
    ELSE IF XattrFails(ctx, n + 1) THEN [ret |-> -1, x |-> x, n |-> n + 1, ub |-> FALSE]
    ELSE [ret |-> 0,
          x |-> WithXattr(x, ctx.path, (XattrName(ns, attr) :> val.text) @@ XattrOf(x, ctx.path)),
          n |-> n + 1, ub |-> FALSE]

\* uwsgi_webdav_prop_del: removexattr(filename, name), which fails when the
\* attribute is not there
uwsgi_webdav_prop_del(ctx, x, n, ns, attr) ==
    LET old == XattrOf(x, ctx.path)
        key == XattrName(ns, attr)
    IN  IF ~conf.linux THEN [ret |-> 0, x |-> x, n |-> n, ub |-> FALSE]
        ELSE IF XattrFails(ctx, n + 1) \/ key \notin DOMAIN old
        THEN [ret |-> -1, x |-> x, n |-> n + 1, ub |-> FALSE]
        ELSE [ret |-> 0,
              x |-> WithXattr(x, ctx.path, [q \in DOMAIN old \ {key} |-> old[q]]),
              n |-> n + 1, ub |-> FALSE]

\* a set in some order, as listxattr and readdir_r give their names
RECURSIVE SeqOf(_)
SeqOf(S) == IF S = {} THEN <<>> ELSE LET e == CHOOSE e \in S : TRUE IN <<e>> \o SeqOf(S \ {e})

\* strchr(key + 18, '|'): index of the first '|' after the prefix, 0 if none
Separator(key) ==
    LET idx == {i \in 2..Len(key) : key[i] = "|"}
    IN  IF idx = {} THEN 0 ELSE CHOOSE i \in idx : \A j \in idx : i <= j

\* xmlNewChild(parent, ns, name, content): an element created without a
\* namespace takes the namespace of its parent
xmlNewChild(parent_ns, ns, name, text, kids) ==
    Node(IF ns = <<>> THEN parent_ns ELSE ns, name, text, kids)

\* the name and the namespace an attribute name stands for: the name is
\* what follows the first '|' (or the prefix), the namespace what lies between
\* prefix and '|', none without '|'
KeyName(key) ==
    LET sep == Separator(key)
    IN  IF sep > 0 THEN SubSeq(key, sep + 1, Len(key)) ELSE Tail(key)
KeyNs(key) ==
    LET sep == Separator(key)
    IN  IF sep > 0 THEN SubSeq(key, 2, sep - 1) ELSE <<>>

\* the element uwsgi_webdav_add_props adds to prop for the attribute key.
\* With values, getxattr's result is added only when it is longer than 0 (the
\* branch for an empty value tests the length of the name list, never 0
\* here), so an attribute with an empty value adds nothing
DeadProp(key, value, with_values) ==
    IF with_values
    THEN IF Len(value) > 0 THEN <<xmlNewChild(DAV, KeyNs(key), KeyName(key), value, <<>>)>>
         ELSE <<>>
    ELSE <<xmlNewChild(DAV, KeyNs(key), KeyName(key), <<>>, <<>>)>>

RECURSIVE DeadProps(_, _, _)
DeadProps(keys, m, with_values) ==
    IF keys = <<>> THEN <<>>
    ELSE LET key == Head(keys)
         IN  (IF Head(key) = Head(XattrPrefix) THEN DeadProp(key, m[key], with_values)
              ELSE <<>>)
             \o DeadProps(Tail(keys), m, with_values)

-----------------------------------------------------------------------------
(* PROPFIND *)

\* http_url_encode: letters, digits, '-', '_', '.', '~' and '/' stay, any
\* other byte becomes '%' and two hex digits
RECURSIVE http_url_encode(_)
http_url_encode(u) ==
    IF u = <<>> THEN <<>>
    ELSE (IF Head(u) = " " THEN <<"%", "2", "0">>
          ELSE IF Head(u) = "|" THEN <<"%", "7", "C">>
          ELSE <<Head(u)>>) \o http_url_encode(Tail(u))

\* uwsgi_str_num of the Depth header; depth stays 0 without the header
Depths == {"absent", "0", "1"}
uwsgi_str_num(h) == IF h = "1" THEN 1 ELSE 0

Dav(name, text, kids) == Node(DAV, <<name>>, text, kids)

\* the live properties uwsgi_webdav_add_props writes (no MIME type is known
\* for a name without extension)
LiveProps(uri, isdir, size, with_values) ==
    IF with_values
    THEN <<Dav("displayname", uri, <<>>),
           Dav("resourcetype", <<>>, IF isdir THEN <<Dav("collection", <<>>, <<>>)>> ELSE <<>>)>>
         \o (IF isdir THEN <<>> ELSE <<Dav("getcontentlength", <<ToString(size)>>, <<>>)>>)
         \o <<Dav("creationdate", <<"date">>, <<>>), Dav("getlastmodified", <<"date">>, <<>>),
              Dav("executable", <<>>, <<>>)>>
    ELSE <<Dav("displayname", <<>>, <<>>), Dav("resourcetype", <<>>, <<>>)>>
         \o (IF isdir THEN <<>>
             ELSE <<Dav("getcontentlength", <<>>, <<>>), Dav("getcontenttype", <<>>, <<>>)>>)
         \o <<Dav("creationdate", <<>>, <<>>), Dav("getlastmodified", <<>>, <<>>)>>

\* uwsgi_webdav_add_props: the response element of one resource, none when
\* stat() fails
uwsgi_webdav_add_props(f, x, proto, uri, filename, with_values) ==
    LET st == Realpath(f, filename)
    IN  IF ~st.ok THEN <<>>
        ELSE LET m == XattrOf(x, st.path)
                 dead == IF conf.linux THEN DeadProps(SeqOf(DOMAIN m), m, with_values) ELSE <<>>
                 live == LiveProps(uri, f[st.path].kind = "dir", Len(f[st.path].data), with_values)
             IN  <<Dav("response", <<>>,
                       <<Dav("href", http_url_encode(uri), <<>>),
                         Dav("propstat", <<>>,
                             <<Dav("status", <<proto, " 200 OK">>, <<>>),
                               Dav("prop", <<>>, live \o dead)>>)>>)>>

\* the entries of the collection after "." (".." is skipped)
RECURSIVE ChildProps(_, _, _, _, _, _, _)
ChildProps(f, x, proto, p, filename, names, with_values) ==
    IF names = <<>> THEN <<>>
    ELSE LET name == Head(names)
             uri == IF Last(p) = "/" THEN p \o name ELSE p \o Slash \o name
             direntry == filename \o Slash \o name
         IN  uwsgi_webdav_add_props(f, x, proto, uri, direntry, with_values)
             \o ChildProps(f, x, proto, p, filename, Tail(names), with_values)

\* a manage_prop that does not skip "..": the parent gets an entry too
manage_prop_with_dotdot(f, x, proto, p, filename, depth, with_values) ==
    LET dir == Realpath(f, filename).path
        up == IF Last(p) = "/" THEN p \o DotDot ELSE p \o Slash \o DotDot
        responses ==
            IF depth = 0 THEN uwsgi_webdav_add_props(f, x, proto, p, filename, with_values)
            ELSE IF ~IsDir(f, dir) THEN <<>>
            ELSE uwsgi_webdav_add_props(f, x, proto, p, filename, with_values)
                 \o uwsgi_webdav_add_props(f, x, proto, up, filename \o Slash \o DotDot,
                                           with_values)
                 \o ChildProps(f, x, proto, p, filename,
                               SeqOf({Last(q) : q \in Children(f, dir)}), with_values)
    IN  [doc |-> Dav("multistatus", <<>>, responses), ub |-> depth # 0 /\ ~IsDir(f, dir),
         dirs |-> IF depth # 0 /\ IsDir(f, dir) THEN 1 ELSE 0]

\* uwsgi_webdav_manage_prop: the multistatus document; with a depth other
\* than 0 the target is opened as a directory, and the result of opendir is
\* not tested (ub when the target is no directory); the directory opened is
\* closed after the loop
uwsgi_webdav_manage_prop(f, x, proto, p, filename, depth, with_values) ==
    LET dir == Realpath(f, filename).path
        responses ==
            IF depth = 0 THEN uwsgi_webdav_add_props(f, x, proto, p, filename, with_values)
            ELSE IF ~IsDir(f, dir) THEN <<>>
            ELSE uwsgi_webdav_add_props(f, x, proto, p, filename, with_values)
                 \o ChildProps(f, x, proto, p, filename,
                               SeqOf({Last(q) : q \in Children(f, dir)}), with_values)
    IN  [doc |-> Dav("multistatus", <<>>, responses), ub |-> depth # 0 /\ ~IsDir(f, dir),
         dirs |-> IF depth # 0 /\ IsDir(f, dir) THEN 1 ELSE 0]

\* the first child of the propfind element that is DAV: prop, allprop or
\* propname: "values", "names", or "none" when there is no such child
RECURSIVE PropfindKind(_)
PropfindKind(kids) ==
    IF kids = <<>> THEN "none"
    ELSE LET node == Head(kids)
         IN  IF node.ns = DAV /\ node.name \in {<<"prop">>, <<"allprop">>} THEN "values"
             ELSE IF node.ns = DAV /\ node.name = <<"propname">> THEN "names"
             ELSE PropfindKind(Tail(kids))

\* uwsgi_wevdav_manage_propfind, called with the parsed body or without one
uwsgi_wevdav_manage_propfind(r0, ph) ==
    LET filename == uwsgi_webdav_expand_path(fs, r0.path)
        r1 == [r0 EXCEPT !.filename = filename]
        kind == IF r0.xml.kind = "none" THEN "values" ELSE PropfindKind(r0.xml.root.kids)
        md == uwsgi_webdav_manage_prop(fs, xattr, r0.proto, r0.path, filename,
                                       uwsgi_str_num(r0.depth), kind = "values")
    IN  IF filename = <<>> THEN Answer(Status(r1, 404), fs, ph)
        ELSE IF r0.xml.kind = "xml" /\ r0.xml.root.name # <<"propfind">> THEN Answer(r1, fs, ph)
        ELSE IF kind = "none" THEN Answer(Status(r1, 207), fs, ph)
        ELSE IF md.ub
        THEN \/ Answer([r1 EXCEPT !.ub = TRUE], fs, ph)
             \/ Answer([Status(r1, 207) EXCEPT !.ub = TRUE, !.doc = md.doc], fs, ph)
        ELSE Answer([Status(r1, 207) EXCEPT !.doc = md.doc, !.opened = md.dirs,
                                            !.closed = md.dirs], fs, ph)

-----------------------------------------------------------------------------
(* PROPPATCH *)

\* the body of a property element: the content of its first child
Content(node) == IF node.kids # <<>> THEN ElementVal ELSE TextVal(node.text)

NoUpdate(x) == [x |-> x, n |-> 0, out |-> <<>>, ub |-> FALSE]

\* the propstat uwsgi_webdav_do_prop_update adds for one property: the
\* status is added to the prop element, beside the property
PropStat(ctx, node, ret) ==
    xmlNewChild(DAV, <<>>, <<"propstat">>, <<>>,
        << xmlNewChild(DAV, <<>>, <<"prop">>, <<>>,
              << xmlNewChild(DAV, node.ns, node.name, <<>>, <<>>),
                 xmlNewChild(DAV, <<>>, <<"status">>,
                     <<ctx.proto, IF ret # 0 THEN " 403 Forbidden" ELSE " 200 OK">>, <<>>) >>) >>)

\* uwsgi_webdav_do_prop_update: every property element of a prop element in
\* turn, action 0 sets and action 1 removes
RECURSIVE uwsgi_webdav_do_prop_update(_, _, _, _)
uwsgi_webdav_do_prop_update(ctx, acc, nodes, action) ==
    IF nodes = <<>> \/ acc.ub THEN acc
    ELSE LET node == Head(nodes)
             c == IF action = 0
                  THEN uwsgi_webdav_prop_set(ctx, acc.x, acc.n, node.ns, node.name, Content(node))
                  ELSE uwsgi_webdav_prop_del(ctx, acc.x, acc.n, node.ns, node.name)
             next == [x |-> c.x, n |-> c.n, ub |-> c.ub,
                      out |-> IF c.ub THEN acc.out ELSE acc.out \o <<PropStat(ctx, node, c.ret)>>]
         IN  uwsgi_webdav_do_prop_update(ctx, next, Tail(nodes), action)

\* uwsgi_webdav_manage_prop_update: the DAV: prop children of a set or
\* remove element
RECURSIVE uwsgi_webdav_manage_prop_update(_, _, _, _)
uwsgi_webdav_manage_prop_update(ctx, acc, nodes, action) ==
    IF nodes = <<>> \/ acc.ub THEN acc
    ELSE LET node == Head(nodes)
         IN  uwsgi_webdav_manage_prop_update(ctx,
                 IF node.ns = DAV /\ node.name = <<"prop">>
                 THEN uwsgi_webdav_do_prop_update(ctx, acc, node.kids, action)
                 ELSE acc,
                 Tail(nodes), action)

\* the loop of uwsgi_wevdav_manage_proppatch over the DAV: set and remove
\* children of propertyupdate
RECURSIVE PropertyUpdate(_, _, _)
PropertyUpdate(ctx, acc, nodes) ==
    IF nodes = <<>> \/ acc.ub THEN acc
    ELSE LET node == Head(nodes)
         IN  PropertyUpdate(ctx,
                 IF node.ns = DAV /\ node.name = <<"set">>
                 THEN uwsgi_webdav_manage_prop_update(ctx, acc, node.kids, 0)
                 ELSE IF node.ns = DAV /\ node.name = <<"remove">>
                 THEN uwsgi_webdav_manage_prop_update(ctx, acc, node.kids, 1)
                 ELSE acc,
                 Tail(nodes))

\* a request ends: as Answer, the extended attributes becoming x
AnswerX(r, x, ph) ==
    /\ resp' = r
    /\ xattr' = x
    /\ fs0' = fs
    /\ phase' = ph
    /\ UNCHANGED <<fs, item, r_strict, r_fake, lock_cache, wk, conf>>

\* uwsgi_wevdav_manage_proppatch, called with the parsed body
uwsgi_wevdav_manage_proppatch(r0, fault, k, ph) ==
    LET filename == uwsgi_webdav_expand_path(fs, r0.path)
        r1 == [r0 EXCEPT !.filename = filename]
        ctx == [path |-> Realpath(fs, filename).path, proto |-> r0.proto,
                fault |-> fault, k |-> k]
        u == PropertyUpdate(ctx, NoUpdate(xattr), r0.xml.root.kids)
        met == fault # "none" /\ u.n >= k
        r2 == [r1 EXCEPT !.calls = u.n, !.ub = u.ub,
                         !.fault = IF met THEN fault ELSE "none",
                         !.k = IF met THEN k ELSE 0]
        rdoc == Dav("multistatus", <<>>,
                    <<Dav("response", <<>>,
                          <<Dav("href", http_url_encode(r0.path), <<>>)>> \o u.out)>>)
    IN  IF filename = <<>> THEN AnswerX(Status(r1, 404), xattr, ph)
        ELSE IF r0.xml.root.name # <<"propertyupdate">> THEN AnswerX(r1, xattr, ph)
        ELSE IF u.ub
        THEN \/ AnswerX(r2, u.x, ph)
             \/ AnswerX([Status(r2, 207) EXCEPT !.doc = rdoc], u.x, ph)
        ELSE AnswerX([Status(r2, 207) EXCEPT !.doc = rdoc], u.x, ph)

-----------------------------------------------------------------------------
(* PROPFIND and PROPPATCH requests *)

\* property elements in one PROPPATCH
MaxProps == 2

Protocols == {"HTTP/1.1", "HTTP/1.0"}

\* the bodies of PROPFIND: none, one that is no XML, a propfind element with
\* prop, allprop, propname or a child that is none of them, and another root
PropfindBodies ==
    {NoBody, JunkBody, XmlBody(Dav("other", <<>>, <<>>))}
    \cup {XmlBody(Dav("propfind", <<>>, <<Dav(c, <<>>, <<>>)>>)) :
             c \in {"prop", "allprop", "propname", "include"}}
    \cup {XmlBody(Dav("propfind", <<>>, <<>>))}

\* the property elements of a set: without and with namespace, empty, with
\* a text, and with an element as first child
PropNs == {<<>>, <<"n">>}
SetElems ==
    {Node(ns, <<"p">>, t, <<>>) : ns \in PropNs, t \in {<<>>, <<"v">>}}
    \cup {Node(ns, <<"p">>, <<>>, <<Dav("href", <<"v">>, <<>>)>>) : ns \in PropNs}
RemoveElems == {Node(ns, <<"p">>, <<>>, <<>>) : ns \in PropNs}
PropOps == {[action |-> "set", node |-> e] : e \in SetElems}
           \cup {[action |-> "remove", node |-> e] : e \in RemoveElems}

RECURSIVE OpsUpTo(_)
OpsUpTo(n) ==
    IF n = 0 THEN {<<>>}
    ELSE LET shorter == OpsUpTo(n - 1)
         IN  shorter \cup {Append(s, o) : s \in {t \in shorter : Len(t) = n - 1}, o \in PropOps}

\* the set and remove elements of a request: consecutive operations of one
\* kind share one set (remove) element and its prop element
RECURSIVE Blocks(_)
Blocks(ops) ==
    IF ops = <<>> THEN <<>>
    ELSE LET rest == Blocks(Tail(ops))
             o == Head(ops)
         IN  IF rest # <<>> /\ Head(rest).name = <<o.action>>
             THEN <<Dav(o.action, <<>>,
                        <<Dav("prop", <<>>, <<o.node>> \o Head(rest).kids[1].kids)>>)>>
                  \o Tail(rest)
             ELSE <<Dav(o.action, <<>>, <<Dav("prop", <<>>, <<o.node>>)>>)>> \o rest

ProppatchBodies ==
    {NoBody, JunkBody, XmlBody(Dav("other", <<>>, <<>>))}
    \cup {XmlBody(Dav("propertyupdate", <<>>, Blocks(ops))) : ops \in OpsUpTo(MaxProps)}

\* the paths asked: the docroot, a collection without and with trailing
\* '/', a file, a name that does not exist
PropPaths == {<<"/">>, <<"/", "a">>, <<"/", "a", "/">>, <<"/", "b">>, <<"/", "c">>}

PropReq(m, p, proto, depth, xml) ==
    [NoResp EXCEPT !.method = m, !.path = p, !.proto = proto, !.depth = depth, !.xml = xml]

\* PROPFIND as uwsgi_webdav_request serves it: a body that cannot be parsed
\* ends the request
PropfindRequest(r, ph) ==
    IF r.xml.kind = "junk" THEN Answer(r, fs, ph)
    ELSE uwsgi_wevdav_manage_propfind(r, ph)

\* PROPPATCH as uwsgi_webdav_request serves it: no body, or one that cannot
\* be parsed, ends the request
ProppatchRequest(r, fault, k, ph) ==
    IF r.xml.kind \in {"none", "junk"} THEN AnswerX(r, xattr, ph)
    ELSE uwsgi_wevdav_manage_proppatch(r, fault, k, ph)

\* one PROPFIND; after a PROPPATCH or a MKCOL, on the path of that request
Propfind ==
    /\ phase \in {"fresh", "put"}
    /\ \E p \in PropPaths, proto \in Protocols, depth \in Depths, xml \in PropfindBodies :
          /\ phase = "put" => (p = resp.path /\ (resp.method = "PROPPATCH" => proto = resp.proto))
          /\ PropfindRequest(PropReq("PROPFIND", p, proto, depth, xml), "done")

\* one PROPPATCH, all its calls succeeding or the k-th setxattr/removexattr
\* failing
Proppatch ==
    /\ phase \in {"fresh", "session"}
    /\ \E p \in PropPaths, proto \in Protocols, xml \in ProppatchBodies :
          LET ph == IF phase = "fresh" THEN "done" ELSE "put"
              r == PropReq("PROPPATCH", p, proto, "absent", xml)
          IN  \/ ProppatchRequest(r, "none", 0, ph)
              \/ \E k \in 1..MaxFaultAt : ProppatchRequest(r, "xattr", k, ph)

\* the docroot: a collection a holding a file, a file with a space in its
\* name and a link to nothing, or holding a file and a collection with a
\* file; beside it the file b
PropFS ==
    LET a == InDocroot(<< <<"a">> >>)
        aa == InDocroot(<< <<"a">>, <<"a">> >>)
        asp == InDocroot(<< <<"a">>, <<" ">> >>)
        ab == InDocroot(<< <<"a">>, <<"b">> >>)
        aba == InDocroot(<< <<"a">>, <<"b">>, <<"a">> >>)
        b == InDocroot(<< <<"b">> >>)
    IN  { (a :> Dir) @@ (aa :> File(<<"x", "y">>)) @@ (asp :> File(<<>>))
             @@ (ab :> Link(<<"/", "x">>)) @@ (b :> File(<<"y">>)) @@ Outside,
          (a :> Dir) @@ (aa :> File(<<"x">>)) @@ (ab :> Dir) @@ (aba :> File(<<"y">>))
             @@ (b :> File(<<"y">>)) @@ Outside }

\* the attributes the files start with: none, or dead properties with and
\* without namespace, one with an empty value, and an attribute that is no
\* dead property
PropXattrs ==
    { NoXattr,
      (InDocroot(<< <<"b">> >>) :>
          ((XattrName(<<"n">>, <<"p">>) :> <<"v">>) @@ (XattrName(<<>>, <<"q">>) :> <<>>)
           @@ (<<"user.x">> :> <<"z">>)))
      @@ (InDocroot(<< <<"a">>, <<"a">> >>) :> (XattrName(<<>>, <<"p">>) :> <<"w">>)) }

InitProp ==
    /\ fs \in PropFS
    /\ fs0 = fs
    /\ resp = NoResp
    /\ phase = "fresh"
    /\ item = <<>>
    /\ r_strict = NotRun
    /\ r_fake = NotRun
    /\ lock_cache = [u \in URIs |-> NoToken]
    /\ xattr \in PropXattrs
    /\ conf \in {[Configured EXCEPT !.linux = l] : l \in BOOLEAN}
    /\ wk = [w \in Workers |-> Idle]

NextProp == Propfind \/ Proppatch

\* one PROPFIND or PROPPATCH, on a build with or without extended attributes
SpecProp == InitProp /\ [][NextProp]_vars

InitPropSession ==
    /\ fs \in PropFS
    /\ fs0 = fs
    /\ resp = NoResp
    /\ phase = "session"
    /\ item = <<>>
    /\ r_strict = NotRun
    /\ r_fake = NotRun
    /\ lock_cache = [u \in URIs |-> NoToken]
    /\ xattr \in PropXattrs
    /\ conf = Configured
    /\ wk = [w \in Workers |-> Idle]

\* a PROPPATCH and then a PROPFIND of the same resource
SpecPropSession == InitPropSession /\ [][NextProp]_vars

-----------------------------------------------------------------------------
(* PROPFIND of a collection *)

\* the href of each response entry of the answer, in order
Hrefs == [i \in 1..Len(resp.doc.kids) |-> resp.doc.kids[i].kids[1].text]

\* the request URI joined to a child name with a single '/'
Joined(p, name) == IF Last(p) = "/" THEN p \o name ELSE p \o Slash \o name

\* the last request was a PROPFIND with Depth: 1 of a collection, answered
\* with a multistatus document
Depth1OfCollection ==
    /\ resp.method = "PROPFIND"
    /\ resp.depth = "1"
    /\ Target.ok /\ IsDir(fs0, Target.path)
    /\ resp.status = 207
    /\ resp.doc # NoDoc

\* the entries are exactly the collection and the children in kids, each once
EntriesFor(kids) ==
    /\ Len(Hrefs) = 1 + Cardinality(kids)
    /\ {Hrefs[i] : i \in 1..Len(Hrefs)}
         = {http_url_encode(resp.path)}
           \cup {http_url_encode(Joined(resp.path, Last(q))) : q \in kids}
    /\ Cardinality({i \in 1..Len(Hrefs) : Hrefs[i] = http_url_encode(resp.path)}) = 1

-----------------------------------------------------------------------------
(* Dead properties over a PROPPATCH and a PROPFIND *)

\* the property elements of a PROPPATCH body in request order, each with
\* the action of its block
RECURSIVE OpsOfProps(_, _)
OpsOfProps(action, props) ==
    IF props = <<>> THEN <<>>
    ELSE (IF Head(props).ns = DAV /\ Head(props).name = <<"prop">>
          THEN [i \in 1..Len(Head(props).kids) |->
                   [action |-> action, node |-> Head(props).kids[i]]]
          ELSE <<>>)
         \o OpsOfProps(action, Tail(props))

RECURSIVE OpsOf(_)
OpsOf(blocks) ==
    IF blocks = <<>> THEN <<>>
    ELSE (IF Head(blocks).ns = DAV /\ Head(blocks).name \in {<<"set">>, <<"remove">>}
          THEN OpsOfProps(Head(blocks).name[1], Head(blocks).kids)
          ELSE <<>>)
         \o OpsOf(Tail(blocks))

\* the properties in the entry a PROPFIND answer has for its own URI
OwnProps(r) ==
    LET own == {i \in 1..Len(r.doc.kids) : r.doc.kids[i].kids[1].text = http_url_encode(r.path)}
    IN  IF own = {} THEN <<>>
        ELSE r.doc.kids[CHOOSE i \in own : TRUE].kids[2].kids[2].kids

Returns(r, ns, name) == {i \in 1..Len(OwnProps(r)) :
                            OwnProps(r)[i].ns = ns /\ OwnProps(r)[i].name = name}

\* a PROPPATCH all of whose attribute calls succeeded is followed by a
\* PROPFIND with values of the same resource
PatchThenFind ==
    /\ conf.linux
    /\ resp.method = "PROPPATCH" /\ resp.status = 207 /\ ~resp.ub
    /\ resp.fault = "none"
    /\ resp'.method = "PROPFIND" /\ resp'.status = 207 /\ ~resp'.ub
    /\ resp'.path = resp.path
    /\ resp'.doc # NoDoc
    /\ PropfindKind(resp'.xml.root.kids) = "values" \/ resp'.xml.kind = "none"

\* C15: after a PROPPATCH, a PROPFIND with values of the same resource
\* returns every property whose last operation was a set, with the namespace,
\* name and value of that set, whatever the length of the value, and returns
\* no property whose last operation was a remove; and the attribute name made
\* of a namespace and a name decodes to that namespace and that name.
C15_DeadPropRoundTrip ==
    [][PatchThenFind =>
          LET ops == OpsOf(resp.xml.root.kids)
              last == {i \in 1..Len(ops) :
                          \A j \in (i + 1)..Len(ops) :
                             <<ops[j].node.ns, ops[j].node.name>>
                                # <<ops[i].node.ns, ops[i].node.name>>}
          IN  \A i \in last :
                 LET node == ops[i].node
                     key == XattrName(node.ns, node.name)
                 IN  /\ KeyNs(key) = node.ns /\ KeyName(key) = node.name
                     /\ ops[i].action = "set" =>
                           \E n \in Returns(resp', node.ns, node.name) :
                              OwnProps(resp')[n].text = node.text
                     /\ ops[i].action = "remove" =>
                           Returns(resp', node.ns, node.name) = {}]_vars

-----------------------------------------------------------------------------
(* The statuses of a PROPPATCH *)

\* what the operations ops make of the attributes m of a file when the k-th
\* of them fails for a reason of its own (k = 0: none) and a remove of an
\* attribute that is not there fails: which succeed, and the attributes left
RECURSIVE Outcome(_, _, _, _)
Outcome(ops, m, n, k) ==
    IF ops = <<>> THEN [ok |-> <<>>, m |-> m]
    ELSE LET o == Head(ops)
             key == XattrName(o.node.ns, o.node.name)
             ok == /\ n + 1 # k
                   /\ o.action = "remove" => key \in DOMAIN m
             m1 == IF ~ok THEN m
                   ELSE IF o.action = "set" THEN (key :> o.node.text) @@ m
                   ELSE [q \in DOMAIN m \ {key} |-> m[q]]
             rest == Outcome(Tail(ops), m1, n + 1, k)
         IN  [ok |-> <<ok>> \o rest.ok, m |-> rest.m]

\* the propstat elements of a PROPPATCH answer
PropStats(r) == Tail(r.doc.kids[1].kids)

\* C16: a PROPPATCH with a propertyupdate body on a target that resolves is
\* answered 207 with one propstat per property element, in request order,
\* naming the property; its status is 200 OK with the request's protocol
\* when the set or remove succeeded and 403 Forbidden when it failed, and the
\* attributes of the target are those the succeeding operations leave, a
\* failed one stopping none after it; on a target that does not resolve the
\* answer is 404 and no attribute changes.
C16_ProppatchStatus ==
    [][(/\ conf.linux
        /\ resp'.method = "PROPPATCH"
        /\ resp'.xml.kind = "xml" /\ resp'.xml.root.name = <<"propertyupdate">>) =>
          LET t == Realpath(fs, DocrootStr \o Slash \o resp'.path)
              ops == OpsOf(resp'.xml.root.kids)
              exp == Outcome(ops, XattrOf(xattr, t.path), 0, resp'.k)
          IN  IF ~t.ok THEN resp'.status = 404 /\ xattr' = xattr
              ELSE /\ resp'.status = 207
                   /\ resp'.doc # NoDoc
                   /\ Len(PropStats(resp')) = Len(ops)
                   /\ \A i \in 1..Len(ops) :
                         LET prop == PropStats(resp')[i].kids[1]
                         IN  /\ prop.kids[1].name = ops[i].node.name
                             /\ prop.kids[2].text =
                                   <<resp'.proto,
                                     IF exp.ok[i] THEN " 200 OK" ELSE " 403 Forbidden">>
                   /\ XattrOf(xattr', t.path) = exp.m
                   /\ \A q \in (DOMAIN xattr \cup DOMAIN xattr') \ {t.path} :
                         XattrOf(xattr', q) = XattrOf(xattr, q)]_vars

\* the same, for property elements without an element inside
C16_TextOnly ==
    [][(/\ conf.linux
        /\ resp'.method = "PROPPATCH"
        /\ resp'.xml.kind = "xml" /\ resp'.xml.root.name = <<"propertyupdate">>
        /\ \A i \in 1..Len(OpsOf(resp'.xml.root.kids)) :
              OpsOf(resp'.xml.root.kids)[i].node.kids = <<>>) =>
          LET t == Realpath(fs, DocrootStr \o Slash \o resp'.path)
              ops == OpsOf(resp'.xml.root.kids)
              exp == Outcome(ops, XattrOf(xattr, t.path), 0, resp'.k)
          IN  IF ~t.ok THEN resp'.status = 404 /\ xattr' = xattr
              ELSE /\ resp'.status = 207
                   /\ Len(PropStats(resp')) = Len(ops)
                   /\ \A i \in 1..Len(ops) :
                         PropStats(resp')[i].kids[1].kids[2].text =
                            <<resp'.proto, IF exp.ok[i] THEN " 200 OK" ELSE " 403 Forbidden">>
                   /\ XattrOf(xattr', t.path) = exp.m]_vars

-----------------------------------------------------------------------------
(* The multistatus document *)

KidsNamed(node, name) == {i \in 1..Len(node.kids) : node.kids[i].name = <<name>>}

WellFormedPropstat(ps) ==
    /\ KidsNamed(ps, "prop") # {}
    /\ KidsNamed(ps, "status") # {}

WellFormedResponse(r) ==
    /\ r.name = <<"response">>
    /\ Cardinality(KidsNamed(r, "href")) = 1
    /\ KidsNamed(r, "propstat") # {}
    /\ \A i \in KidsNamed(r, "propstat") : WellFormedPropstat(r.kids[i])

WellFormedMultistatus(doc) ==
    /\ doc.name = <<"multistatus">> /\ doc.ns = DAV
    /\ Len(doc.kids) >= 1
    /\ \A i \in 1..Len(doc.kids) : WellFormedResponse(doc.kids[i])

\* C17: a 207 answer of PROPFIND or PROPPATCH that has a body (for
\* PROPPATCH: of a request naming a property) has the root multistatus in
\* the DAV: namespace with one or more response children, each with exactly
\* one href and one or more propstat, each propstat with a prop child and a
\* status child.
C17_WellFormedMultistatus ==
    (/\ resp.method \in {"PROPFIND", "PROPPATCH"}
     /\ resp.status = 207 /\ ~resp.ub
     /\ resp.doc # NoDoc
     /\ resp.method = "PROPPATCH" => OpsOf(resp.xml.root.kids) # <<>>)
    => WellFormedMultistatus(resp.doc)

-----------------------------------------------------------------------------
(* A build without extended attributes *)

\* the names of the live properties
LiveNames == {<<"displayname">>, <<"resourcetype">>, <<"getcontentlength">>,
              <<"getcontenttype">>, <<"creationdate">>, <<"getlastmodified">>,
              <<"executable">>}

\* C18: on a build without extended attributes a PROPFIND answer holds live
\* properties only, and every property of a PROPPATCH answer has the status
\* 403 Forbidden.
C18_NoXattrSupport ==
    (~conf.linux /\ resp.status = 207 /\ resp.doc # NoDoc) =>
        /\ resp.method = "PROPFIND" =>
              \A i \in 1..Len(resp.doc.kids) :
                 LET prop == resp.doc.kids[i].kids[2].kids[2]
                 IN  \A j \in 1..Len(prop.kids) :
                        prop.kids[j].name \in LiveNames /\ prop.kids[j].ns = DAV
        /\ resp.method = "PROPPATCH" =>
              \A i \in 1..Len(PropStats(resp)) :
                 PropStats(resp)[i].kids[1].kids[2].text = <<resp.proto, " 403 Forbidden">>

-----------------------------------------------------------------------------
(* The dispatcher *)

\* what the request can meet before its method is looked at: nothing,
\* request variables that do not parse, an application id that is not found
Envs == {"ok", "novars", "noapp"}

\* PATH_INFO: empty, or one of PropPaths
ReqPaths == {<<>>} \cup PropPaths

\* methods no branch of the dispatcher matches
OtherMethods == {"UNLOCK", "BREW"}

\* uwsgi_webdav_request up to the first method test, and then served, the
\* branch of the request's method
uwsgi_webdav_request(m, p, env, served) ==
    LET r == Req(m, p)
    IN  IF ~conf.mounted THEN Answer(Status(r, 500), fs, "done")
        ELSE IF env = "novars" THEN Answer([r EXCEPT !.fault = env], fs, "done")
        ELSE IF Len(p) = 0 THEN Answer(Status(r, 403), fs, "done")
        ELSE IF env = "noapp" THEN Answer(Status([r EXCEPT !.fault = env], 403), fs, "done")
        ELSE served

\* uwsgi_wevdav_manage_copy: the Destination header is logged, nothing else
uwsgi_wevdav_manage_copy(p) == Answer(Req("COPY", p), fs, "done")

RequestOptions ==
    /\ phase = "fresh"
    /\ \E p \in ReqPaths, env \in Envs :
          uwsgi_webdav_request("OPTIONS", p, env,
              Answer(Status(Req("OPTIONS", p), 200), fs, "done"))

RequestGet ==
    /\ phase = "fresh"
    /\ \E p \in ReqPaths, env \in Envs :
          uwsgi_webdav_request("GET", p, env,
              \E fault \in ReadFaults(p) : uwsgi_wevdav_manage_get("GET", p, TRUE, fault))

RequestHead ==
    /\ phase = "fresh"
    /\ \E p \in ReqPaths, env \in Envs :
          uwsgi_webdav_request("HEAD", p, env,
              \E fault \in ReadFaults(p) : uwsgi_wevdav_manage_get("HEAD", p, FALSE, fault))

RequestPropfind ==
    /\ phase = "fresh"
    /\ \E p \in ReqPaths, env \in Envs, depth \in Depths, xml \in PropfindBodies :
          uwsgi_webdav_request("PROPFIND", p, env,
              PropfindRequest(PropReq("PROPFIND", p, "HTTP/1.1", depth, xml), "done"))

RequestPut ==
    /\ phase = "fresh"
    /\ \E p \in ReqPaths, env \in Envs, body \in Bodies :
          uwsgi_webdav_request("PUT", p, env,
              \E fault \in {"none", "open"} : uwsgi_wevdav_manage_put(p, body, fault, 0))

RequestDelete ==
    /\ phase = "fresh"
    /\ \E p \in ReqPaths, env \in Envs :
          uwsgi_webdav_request("DELETE", p, env,
              \/ uwsgi_wevdav_manage_delete(p, "none", 0)
              \/ \E fault \in DeleteFaults, k \in 1..MaxFaultAt :
                    uwsgi_wevdav_manage_delete(p, fault, k))

RequestMkcol ==
    /\ phase = "fresh"
    /\ \E p \in ReqPaths, env \in Envs, body \in Bodies :
          uwsgi_webdav_request("MKCOL", p, env, uwsgi_wevdav_manage_mkcol(p, body, "none"))

RequestCopy ==
    /\ phase = "fresh"
    /\ \E p \in ReqPaths, env \in Envs :
          uwsgi_webdav_request("COPY", p, env, uwsgi_wevdav_manage_copy(p))

RequestMove ==
    /\ phase = "fresh"
    /\ \E p \in ReqPaths, env \in Envs :
          uwsgi_webdav_request("MOVE", p, env, uwsgi_wevdav_manage_move(p))

\* LOCK: a body that cannot be parsed ends the request, anything else is
\* answered by uwsgi_wevdav_manage_lock
RequestLock ==
    /\ phase = "fresh"
    /\ \E p \in ReqPaths, env \in Envs,
          xml \in {NoBody, JunkBody, XmlBody(Dav("lockinfo", <<>>, <<>>))} :
          LET r == [Req("LOCK", p) EXCEPT !.xml = xml]
          IN  uwsgi_webdav_request("LOCK", p, env,
                  IF xml.kind = "junk" THEN Answer(r, fs, "done")
                  ELSE Answer(Status(r, 201), fs, "done"))

RequestProppatch ==
    /\ phase = "fresh"
    /\ \E p \in ReqPaths, env \in Envs, xml \in ProppatchBodies :
          uwsgi_webdav_request("PROPPATCH", p, env,
              ProppatchRequest(PropReq("PROPPATCH", p, "HTTP/1.1", "absent", xml),
                               "none", 0, "done"))

\* any other method: no branch matches, the request falls to the label end
RequestOther ==
    /\ phase = "fresh"
    /\ \E m \in OtherMethods, p \in ReqPaths, env \in Envs :
          uwsgi_webdav_request(m, p, env, Answer(Req(m, p), fs, "done"))

InitRequest ==
    /\ fs \in PropFS
    /\ fs0 = fs
    /\ resp = NoResp
    /\ phase = "fresh"
    /\ item = <<>>
    /\ r_strict = NotRun
    /\ r_fake = NotRun
    /\ lock_cache = [u \in URIs |-> NoToken]
    /\ xattr \in PropXattrs
    /\ conf \in {[Configured EXCEPT !.mounted = b] : b \in BOOLEAN}
    /\ wk = [w \in Workers |-> Idle]

NextRequest ==
    \/ RequestOptions \/ RequestGet \/ RequestHead \/ RequestPropfind \/ RequestPut
    \/ RequestDelete \/ RequestMkcol \/ RequestCopy \/ RequestMove \/ RequestLock
    \/ RequestProppatch \/ RequestOther

\* one request of any method through uwsgi_webdav_request, with or without
\* mountpoints
SpecRequest == InitRequest /\ [][NextRequest]_vars

\* C19: every request that was served (its variables parsed, no undefined
\* behaviour met) has a status when uwsgi_webdav_request returns.
C19_AlwaysStatus ==
    (phase = "done" /\ resp.fault # "novars" /\ ~resp.ub) => resp.status # 0

\* C20: a request without mountpoints, a request whose application id is not
\* found and a PROPPATCH whose body does not parse are answered 500, and the
\* filesystem and the attributes stay as they were.
C20_InternalError ==
    (/\ phase = "done"
     /\ \/ ~conf.mounted
        \/ resp.fault = "noapp"
        \/ resp.method = "PROPPATCH" /\ resp.xml.kind = "junk")
    => (resp.status = 500 /\ fs = fs0)

\* the part of C20 about a request without mountpoints
C20_NoMountpoint ==
    (phase = "done" /\ ~conf.mounted) => (resp.status = 500 /\ fs = fs0)

-----------------------------------------------------------------------------
(* PUT failures, the Destination arithmetic of MOVE, COPY *)

\* C22: a PUT whose path and whose parent do not resolve is answered 409 and
\* creates nothing; a PUT whose open fails is answered 403; a PUT one of
\* whose writes fails or is short is answered 403, and what was written
\* before stays in the file.
C22_PutFailures ==
    resp.method = "PUT" =>
        /\ resp.filename = <<>> => (resp.status = 409 /\ fs = fs0)
        /\ (resp.filename # <<>> /\ resp.fault = "open") => resp.status = 403
        /\ (resp.filename # <<>> /\ resp.fault = "write" /\ UnderDocroot(resp.filename)
            /\ Exists(fs, EntryOf(fs0, resp.filename)))
           => resp.status = 403

\* C28: in a MOVE with a Destination header the 16 bit skip, scheme length
\* (4 for an unknown scheme) + 3 + host length, is at most the header's
\* length, so the 16 bit length destination_len - skip does not wrap.
C28_MoveSkipInRange ==
    (resp.method = "MOVE" /\ Len(resp.dest) > 0) =>
        LET scheme_len == IF Len(resp.scheme) = 0 THEN 4 ELSE Len(resp.scheme)
            skip == U16(scheme_len + 3 + Len(Host))
        IN  /\ skip <= Len(resp.dest)
            /\ U16(Len(resp.dest) - skip) = Len(resp.dest) - skip

\* C24: a COPY of a source that resolves is answered 201 or 204, or 412 or
\* 409 when the destination forbids it, and leaves the source as it was.
C24_Copy ==
    (/\ resp.method = "COPY" /\ conf.mounted /\ resp.fault = "none"
     /\ Len(resp.path) > 0 /\ Target.ok)
    => (resp.status \in {201, 204, 409, 412} /\ fs = fs0)

-----------------------------------------------------------------------------
(* Descriptors: every handler that opens a file or a directory, with every  *)
(* failure it tests for, on the Linux build and on the others               *)

\* the faults a GET or HEAD of p can meet
IoFaults(p, send_body) ==
    LET filename == uwsgi_webdav_expand_path(fs, p)
    IN  IF filename = <<>> THEN {"none"}
        ELSE IF uwsgi_is_dir(fs, filename)
        THEN IF send_body THEN {"none", "buffer", "opendir", "read", "append", "header"}
             ELSE {"none"}
        ELSE {"none", "open", "fstat", "prepare", "header", "read", "write"}

\* a GET; after a HEAD, of the path the HEAD asked
GetIo ==
    /\ phase \in {"fresh", "put"}
    /\ \E p \in PathInfos : \E fault \in IoFaults(p, TRUE) :
          /\ phase = "put" => p = resp.path
          /\ uwsgi_wevdav_manage_get("GET", p, TRUE, fault)

HeadIo ==
    /\ phase \in {"fresh", "probe"}
    /\ \E p \in PathInfos : \E fault \in IoFaults(p, FALSE) :
          uwsgi_wevdav_manage_get("HEAD", p, FALSE, fault)

PutIo ==
    /\ phase = "fresh"
    /\ \E p \in PathInfos, body \in Bodies :
          \/ \E fault \in {"none", "open", "prepare"} : uwsgi_wevdav_manage_put(p, body, fault, 0)
          \/ \E k \in 0..(Len(body) - 1) : uwsgi_wevdav_manage_put(p, body, "write", k)

InitFd ==
    /\ fs \in InitFS
    /\ fs0 = fs
    /\ resp = NoResp
    /\ phase = "fresh"
    /\ item = <<>>
    /\ r_strict = NotRun
    /\ r_fake = NotRun
    /\ lock_cache = [u \in URIs |-> NoToken]
    /\ xattr = NoXattr
    /\ conf \in {[Configured EXCEPT !.linux = l] : l \in BOOLEAN}
    /\ wk = [w \in Workers |-> Idle]

NextFd == GetIo \/ HeadIo \/ PutIo \/ Delete \/ Propfind

\* one request of a method that opens a file or a directory
SpecFd == InitFd /\ [][NextFd]_vars

\* C21: when a handler has returned (GET and HEAD of a file, the listing of a
\* directory, PUT, the recursive DELETE, the enumeration of PROPFIND), on
\* success and after every failure, it has closed every file descriptor and
\* directory stream it opened
C21_NoDescriptorLeak ==
    (phase = "done" /\ ~resp.ub) => resp.closed = resp.opened

-----------------------------------------------------------------------------
(* HEAD and GET of one path *)

InitHeadGet ==
    /\ fs \in InitFS
    /\ fs0 = fs
    /\ resp = NoResp
    /\ phase = "probe"
    /\ item = <<>>
    /\ r_strict = NotRun
    /\ r_fake = NotRun
    /\ lock_cache = [u \in URIs |-> NoToken]
    /\ xattr = NoXattr
    /\ conf \in {[Configured EXCEPT !.linux = l, !.mime = t] : l, t \in BOOLEAN}
    /\ wk = [w \in Workers |-> Idle]

NextHeadGet == HeadIo \/ GetIo

\* a HEAD and then a GET of the same path
SpecHeadGet == InitHeadGet /\ [][NextHeadGet]_vars

\* C23: a HEAD and a GET of the same path that meet the same fault answer
\* the same status (404 when the path does not resolve, 403 when open
\* fails) with the same response headers, for a file and for a directory;
\* the HEAD sends no body, and neither changes the filesystem
C23_HeadEqualsGet ==
    [][(/\ resp.method = "HEAD" /\ resp'.method = "GET"
        /\ resp'.path = resp.path /\ resp'.fault = resp.fault)
       => (/\ resp'.status = resp.status
           /\ resp'.headers = resp.headers
           /\ resp.out = <<>> /\ resp.list = {}
           /\ fs = fs0 /\ fs' = fs)]_vars

-----------------------------------------------------------------------------
(* MKCOL and then PROPFIND of the same path *)

InitMkcolFind ==
    /\ fs \in InitFS
    /\ fs0 = fs
    /\ resp = NoResp
    /\ phase = "probe"
    /\ item = <<>>
    /\ r_strict = NotRun
    /\ r_fake = NotRun
    /\ lock_cache = [u \in URIs |-> NoToken]
    /\ xattr = NoXattr
    /\ conf = Configured
    /\ wk = [w \in Workers |-> Idle]

NextMkcolFind == Mkcol \/ Propfind

SpecMkcolFind == InitMkcolFind /\ [][NextMkcolFind]_vars

\* a PROPFIND that asks for properties: without body, or with a propfind
\* element holding prop, allprop or propname
AsksProps(r) ==
    \/ r.xml.kind = "none"
    \/ r.xml.kind = "xml" /\ r.xml.root.name = <<"propfind">>
       /\ PropfindKind(r.xml.root.kids) # "none"

AsksValues(r) ==
    r.xml.kind = "none" \/ PropfindKind(r.xml.root.kids) = "values"

\* the properties of the i-th response of a multistatus document
PropsOf(doc, i) == doc.kids[i].kids[2].kids[2].kids

\* the document has one response, for the request URI; with values, it is
\* marked as a collection iff isdir, and has a length only if not isdir
OneResponse(r, isdir) ==
    /\ r.status = 207
    /\ Len(r.doc.kids) = 1
    /\ r.doc.kids[1].kids[1].name = <<"href">>
    /\ r.doc.kids[1].kids[1].text = http_url_encode(r.path)
    /\ LET props == PropsOf(r.doc, 1)
       IN  /\ AsksValues(r) =>
                \A i \in 1..Len(props) :
                    props[i].name = <<"resourcetype">> =>
                        ((\E j \in 1..Len(props[i].kids) :
                             props[i].kids[j].name = <<"collection">>) <=> isdir)
           /\ (\E i \in 1..Len(props) : props[i].name = <<"getcontentlength">>) => ~isdir

\* C25: a PROPFIND with Depth 0 or without Depth header that asks for
\* properties of an existing target answers 207 with one response, whose href
\* is the request URI, marked as a collection exactly when the target is a
\* directory and with getcontentlength only when it is not; and a PROPFIND of
\* the path a MKCOL has just answered 201 for has one response, marked as a
\* collection
C25_PropfindDepth0 ==
    [][(/\ resp'.method = "PROPFIND" /\ resp'.depth \in {"absent", "0"}
        /\ AsksProps(resp'))
       => /\ uwsgi_webdav_expand_path(fs, resp'.path) # <<>> =>
                OneResponse(resp', uwsgi_is_dir(fs, uwsgi_webdav_expand_path(fs, resp'.path)))
          /\ (resp.method = "MKCOL" /\ resp.status = 201 /\ resp'.path = resp.path) =>
                OneResponse(resp', TRUE)]_vars

-----------------------------------------------------------------------------
(* Two workers, each serving one request on the same docroot. A handler     *)
(* takes no lock: between the calls that resolve its paths and the call     *)
(* that changes the filesystem the other worker can run                     *)

\* the docroot: a (a file or an empty collection) and the file c; no b
RaceFS ==
    { (InDocroot(<< <<"a">> >>) :> n) @@ (InDocroot(<< <<"c">> >>) :> File(<<"y">>))
      @@ Outside : n \in {File(<<"x">>), Dir} }

RaceReq(m, p, d, ow) == [method |-> m, path |-> p, dest |-> d, ow |-> ow]

\* MOVE of a or of c to b, PUT of b, MKCOL of b
RaceRequests ==
    {RaceReq("MOVE", <<"/", "a">>, <<"/", "b">>, ow) : ow \in {"F", "T"}}
    \cup {RaceReq("MOVE", <<"/", "c">>, <<"/", "b">>, "F"),
          RaceReq("PUT", <<"/", "b">>, <<>>, "absent"),
          RaceReq("MKCOL", <<"/", "b">>, <<>>, "absent")}

\* a worker about to run the handler of its request
Serving(req) ==
    [pc |-> "start", req |-> req, filename |-> <<>>, d_filename |-> <<>>,
     exists |-> FALSE, status |-> 0, replaced |-> FALSE, created |-> FALSE]

\* the handler of worker w returns with status code
Return(w, code) ==
    [wk[w] EXCEPT !.pc = "done",
                  !.status = uwsgi_response_prepare_headers(@, code)]

RaceFrame == UNCHANGED <<fs0, resp, phase, item, r_strict, r_fake, lock_cache, xattr, conf>>

\* uwsgi_wevdav_manage_move up to the rename: source and destination are
\* resolved, an existing destination is refused unless it may be overwritten
MoveResolve(w) ==
    /\ wk[w].pc = "start" /\ wk[w].req.method = "MOVE"
    /\ LET filename == uwsgi_webdav_expand_path(fs, wk[w].req.path)
           d_strict == uwsgi_webdav_expand_path(fs, wk[w].req.dest)
           already_exists == d_strict # <<>>
           d_filename == IF already_exists THEN d_strict
                         ELSE uwsgi_webdav_expand_fake_path(fs, wk[w].req.dest)
       IN  wk' = [wk EXCEPT ![w] =
                    IF filename = <<>> THEN Return(w, 404)
                    ELSE IF already_exists /\ wk[w].req.ow = "F" THEN Return(w, 412)
                    ELSE IF d_filename = <<>> THEN Return(w, 409)
                    ELSE [@ EXCEPT !.pc = "call", !.filename = filename,
                                   !.d_filename = d_filename, !.exists = already_exists]]
    /\ fs' = fs
    /\ RaceFrame

\* the rename of uwsgi_wevdav_manage_move and its answer; replaced tells
\* that the rename put the source in the place of an existing entry
MoveRename(w) ==
    /\ wk[w].pc = "call" /\ wk[w].req.method = "MOVE"
    /\ LET rn == sys_rename(fs, wk[w].filename, wk[w].d_filename)
       IN  /\ fs' = rn.fs
           /\ wk' = [wk EXCEPT ![w] =
                        IF ~rn.ok THEN Return(w, 403)
                        ELSE [Return(w, IF wk[w].exists THEN 204 ELSE 201) EXCEPT
                                 !.replaced = Exists(fs, rn.path)]]
    /\ RaceFrame

\* uwsgi_wevdav_manage_mkcol (without body) up to the mkdir
MkcolResolve(w) ==
    /\ wk[w].pc = "start" /\ wk[w].req.method = "MKCOL"
    /\ LET p == wk[w].req.path
           strict == uwsgi_webdav_expand_path(fs, p)
           path_info == IF Len(p) > 1 /\ Last(p) = "/" THEN Front(p) ELSE p
           filename == uwsgi_webdav_expand_fake_path(fs, path_info)
       IN  wk' = [wk EXCEPT ![w] =
                    IF strict # <<>> THEN Return(w, 405)
                    ELSE IF filename = <<>> THEN Return(w, 409)
                    ELSE [@ EXCEPT !.pc = "call", !.filename = filename]]
    /\ fs' = fs
    /\ RaceFrame

\* the mkdir of uwsgi_wevdav_manage_mkcol and its answer: 409 after a mkdir
\* that failed, and then 201 in every case
MkcolMkdir(w) ==
    /\ wk[w].pc = "call" /\ wk[w].req.method = "MKCOL"
    /\ LET md == sys_mkdir(fs, wk[w].filename)
       IN  /\ fs' = md.fs
           /\ wk' = [wk EXCEPT ![w] =
                        [(IF md.ok THEN Return(w, 201)
                          ELSE [Return(w, 409) EXCEPT
                                   !.status = uwsgi_response_prepare_headers(@, 201)])
                         EXCEPT !.created = md.ok]]
    /\ RaceFrame

\* uwsgi_wevdav_manage_put up to the open
PutResolve(w) ==
    /\ wk[w].pc = "start" /\ wk[w].req.method = "PUT"
    /\ LET strict == uwsgi_webdav_expand_path(fs, wk[w].req.path)
           filename == IF strict # <<>> THEN strict
                       ELSE uwsgi_webdav_expand_fake_path(fs, wk[w].req.path)
       IN  wk' = [wk EXCEPT ![w] =
                    IF filename = <<>> THEN Return(w, 409)
                    ELSE [@ EXCEPT !.pc = "call", !.filename = filename]]
    /\ fs' = fs
    /\ RaceFrame

\* the open of uwsgi_wevdav_manage_put, the copy of the body and the answer
PutOpen(w) ==
    /\ wk[w].pc = "call" /\ wk[w].req.method = "PUT"
    /\ LET o == sys_open_creat(fs, wk[w].filename, MaxSymlinks)
       IN  /\ fs' = IF o.ok THEN sys_write(o.fs, o.path, <<"y">>) ELSE fs
           /\ wk' = [wk EXCEPT ![w] =
                        IF o.ok THEN [Return(w, 201) EXCEPT !.created = ~Exists(fs, o.path)]
                        ELSE Return(w, 403)]
    /\ RaceFrame

InitRace ==
    /\ fs \in RaceFS
    /\ fs0 = fs
    /\ resp = NoResp
    /\ phase = "fresh"
    /\ item = <<>>
    /\ r_strict = NotRun
    /\ r_fake = NotRun
    /\ lock_cache = [u \in URIs |-> NoToken]
    /\ xattr = NoXattr
    /\ conf = Configured
    /\ wk \in [Workers -> {Serving(req) : req \in RaceRequests}]

NextRace ==
    \E w \in Workers :
        \/ MoveResolve(w) \/ MoveRename(w)
        \/ MkcolResolve(w) \/ MkcolMkdir(w)
        \/ PutResolve(w) \/ PutOpen(w)

\* two requests served by two workers, their calls interleaved in any order
SpecRace == InitRace /\ [][NextRace]_vars

\* C26: a MOVE with Overwrite: F that runs beside another worker's PUT, MKCOL
\* or MOVE creating the same destination never replaces a destination that
\* exists when its rename takes effect, and a MOVE that answered 201 has not
\* replaced a destination the other worker created
C26_MoveNoOverwriteRace ==
    \A w \in Workers :
        (wk[w].pc = "done" /\ wk[w].req.method = "MOVE") =>
            /\ wk[w].req.ow = "F" => ~wk[w].replaced
            /\ wk[w].status = 201 => ~wk[w].replaced

\* C27: two MKCOL without body of the same new path with an existing parent,
\* served by two workers: one answers 201 and the other 405 or 409, and the
\* collection is created once
C27_ConcurrentMkcol ==
    (\A w \in Workers : wk[w].pc = "done" /\ wk[w].req.method = "MKCOL") =>
        /\ \E w \in Workers :
              /\ wk[w].status = 201
              /\ \A v \in Workers \ {w} : wk[v].status \in {405, 409}
        /\ Cardinality({w \in Workers : wk[w].created}) = 1

-----------------------------------------------------------------------------
(* The body loop of PUT, call by call. Of the body only the lengths are     *)
(* kept: post_cl declared, avail still to come from the client, stored      *)
(* written to the file                                                      *)

\* the most a read of the body asks for
BodyChunk == 32768

UMIN(a, b) == IF a < b THEN a ELSE b

\* the declared lengths: none, short ones, one chunk, more than one chunk
PostCls == (0..MaxBodyLen) \cup {BodyChunk, BodyChunk + 1, 2 * BodyChunk + 1}

\* uwsgi_request_body_read asked for ask bytes: a chunk of the body (all that
\* was asked and is there, or a single byte), the empty marker once the body
\* is exhausted, or NULL (an error, the client gone)
uwsgi_request_body_read(ask, avail, short) ==
    {[kind |-> "null", len |-> 0]}
    \cup (IF avail = 0 THEN {[kind |-> "empty", len |-> 0]}
          ELSE {[kind |-> "chunk", len |-> UMIN(ask, avail)]}
               \cup (IF short < MaxShortReads THEN {[kind |-> "chunk", len |-> 1]} ELSE {}))

\* a loop that goes on after the empty marker
put_break_on_null(body) == body.kind = "null"

\* if (!body || body == uwsgi.empty) break;
PutBreak(body) == body.kind \in {"null", "empty"}

\* the worker serving the PUT
Putter == 1

PutStart(path, post_cl) ==
    [pc |-> "open", path |-> path, post_cl |-> post_cl, remains |-> 0, avail |-> post_cl,
     short |-> 0, ask |-> 0, body |-> [kind |-> "null", len |-> 0], fd |-> "none",
     status |-> 0, stored |-> 0]

PutStep(next) ==
    /\ wk' = [wk EXCEPT ![Putter] = next]
    /\ UNCHANGED <<fs0, resp, phase, item, r_strict, r_fake, lock_cache, xattr, conf>>

\* the path is resolved and the file opened: 409, 403, or on to the status
PutOpenFile ==
    /\ wk[Putter].pc = "open"
    /\ LET me == wk[Putter]
           strict == uwsgi_webdav_expand_path(fs, me.path)
           filename == IF strict # <<>> THEN strict
                       ELSE uwsgi_webdav_expand_fake_path(fs, me.path)
           o == sys_open_creat(fs, filename, MaxSymlinks)
       IN  IF filename = <<>>
           THEN fs' = fs /\ PutStep([me EXCEPT !.pc = "done",
                                               !.status = uwsgi_response_prepare_headers(@, 409)])
           ELSE IF ~o.ok
           THEN fs' = fs /\ PutStep([me EXCEPT !.pc = "done",
                                               !.status = uwsgi_response_prepare_headers(@, 403)])
           ELSE fs' = o.fs /\ PutStep([me EXCEPT !.pc = "prepare", !.fd = "open"])

\* 201 is prepared (or cannot be: to the end), remains = post_cl
PutPrepare ==
    /\ wk[Putter].pc = "prepare"
    /\ fs' = fs
    /\ \/ PutStep([wk[Putter] EXCEPT !.pc = "close"])
       \/ PutStep([wk[Putter] EXCEPT !.pc = "loop", !.remains = wk[Putter].post_cl,
                                     !.status = uwsgi_response_prepare_headers(@, 201)])

\* while (remains > 0): the next read is asked, or the loop is left
PutWhile ==
    /\ wk[Putter].pc = "loop"
    /\ fs' = fs
    /\ LET me == wk[Putter]
       IN  IF me.remains > 0
           THEN PutStep([me EXCEPT !.pc = "read", !.ask = UMIN(me.remains, BodyChunk)])
           ELSE PutStep([me EXCEPT !.pc = "close"])

\* the read returns; the loop is left on NULL and on the empty marker
PutRead ==
    /\ wk[Putter].pc = "read"
    /\ fs' = fs
    /\ LET me == wk[Putter]
       IN  \E body \in uwsgi_request_body_read(me.ask, me.avail, me.short) :
              PutStep([me EXCEPT !.body = body,
                                 !.avail = @ - body.len,
                                 !.short = IF body.kind = "chunk" /\ body.len = 1
                                              /\ UMIN(me.ask, me.avail) > 1
                                           THEN @ + 1 ELSE @,
                                 !.pc = IF PutBreak(body) THEN "close" ELSE "write"])

\* the chunk is written: all of it and the loop goes on (remains is not
\* changed), or not all of it and the handler goes to its end
PutWrite ==
    /\ wk[Putter].pc = "write"
    /\ fs' = fs
    /\ LET me == wk[Putter]
       IN  \/ PutStep([me EXCEPT !.pc = "loop", !.stored = @ + me.body.len])
           \/ me.body.len > 0 /\ PutStep([me EXCEPT !.pc = "close"])

\* end: close(fd) and return
PutClose ==
    /\ wk[Putter].pc = "close"
    /\ fs' = fs
    /\ PutStep([wk[Putter] EXCEPT !.pc = "done", !.fd = "closed"])

InitPutLoop ==
    /\ fs \in InitFS
    /\ fs0 = fs
    /\ resp = NoResp
    /\ phase = "fresh"
    /\ item = <<>>
    /\ r_strict = NotRun
    /\ r_fake = NotRun
    /\ lock_cache = [u \in URIs |-> NoToken]
    /\ xattr = NoXattr
    /\ conf = Configured
    /\ \E path \in {<<"/", "a">>, <<"/", "b">>, <<"/", "a", "/", "b">>}, post_cl \in PostCls :
          wk = [w \in Workers |-> IF w = Putter THEN PutStart(path, post_cl) ELSE Idle]

\* the steps of the handler once the file is open
PutLoop == PutPrepare \/ PutWhile \/ PutRead \/ PutWrite \/ PutClose

NextPutLoop == PutOpenFile \/ PutLoop

SpecPutLoop == InitPutLoop /\ [][NextPutLoop]_vars

\* the worker goes on running the handler: a call that can return returns
FairPutLoop == SpecPutLoop /\ WF_vars(PutLoop)

\* C29: a PUT with any declared length that has opened its file, its body
\* read from a reader that gives chunks and then the empty marker or NULL,
\* leaves its loop, closes the file and returns; no read asks for more than
\* 32768 bytes
C29_PutTerminates ==
    /\ [](wk[Putter].ask <= 32768)
    /\ (wk[Putter].pc = "prepare") ~> (wk[Putter].pc = "done" /\ wk[Putter].fd = "closed")

\* a PUT of more than two chunks, with a read of a single byte, has stored
\* the whole body, closed the file and returned
C29_Witness ==
    /\ wk[Putter].pc = "done" /\ wk[Putter].fd = "closed" /\ wk[Putter].status = 201
    /\ wk[Putter].post_cl > 2 * BodyChunk /\ wk[Putter].short > 0
    /\ wk[Putter].stored = wk[Putter].post_cl

====
